---- MODULE Spec2Model ----
\* Verification model of the droneforge voxel core (droneforge-core):
\* palette-compressed chunk storage, the chunk cache, the deterministic
\* generator, world-coordinate decomposition and the supercover line query.
\*
\* Chunk extents are scaled down (the source uses 32 x 32 x 4) so that whole
\* chunks can be enumerated; a 64-bit word is kept at its real width and is
\* represented as the set of its set bit positions, because 2^64 does not fit
\* the model checker's integers.
EXTENDS Integers, Sequences, FiniteSets, TLC

VARIABLES
    chunks,          \* ChunkCache.chunks: ChunkPosition -> CachedChunk
    reusable_chunk,  \* ChunkCache.reusable_chunk: the scratch Chunk
    seed,            \* DeterministicMap.seed of the generator in use
    last,            \* outcome of the latest operation (op, result, ...)
    chunk,           \* a dense Chunk under edit (codec specification)
    cached,          \* CachedChunk::from_chunk(chunk), or NoCached once chunk was edited
    line,            \* the locals of a first_solid_supercover call, and its result
    populate,        \* the locals of a populate_within_limits_with_progress call
    view_z,                      \* GameState.view_z
    chunk_cache_queue,           \* GameState.chunk_cache_queue
    chunk_cache_queued,          \* GameState.chunk_cache_queued
    skip_chunk_cache_processing, \* GameState.skip_chunk_cache_processing
    rendered_level,              \* GameState.rendered_level: Some(z of the texture) or None
    rendered_level_dirty,        \* GameState.rendered_level_dirty
    world_chunks,                \* World.chunks: ChunkPosition -> Chunk
    slots,                       \* an InventorySlots array
    selection                    \* ToolController.selection

\* The scheduler fields of GameState.
scheduler_vars ==
    <<view_z, chunk_cache_queue, chunk_cache_queued, skip_chunk_cache_processing>>

\* The World chunks, the inventory and the tool.
tool_vars == <<world_chunks, slots, selection>>

\* The render cache of GameState, and the state around it.
game_vars == <<rendered_level, rendered_level_dirty, tool_vars>>

vars ==
    <<chunks, reusable_chunk, seed, last, chunk, cached, line, populate, scheduler_vars,
      game_vars>>

-----------------------------------------------------------------------------
\* Bounds of the model.

\* Scaled chunk extents (chunk.rs: CHUNK_WIDTH, CHUNK_DEPTH, CHUNK_HEIGHT are
\* 32, 32, 4). 3 * 2 * 4 = 24 voxels: with 3 bits per index, voxel 21 starts
\* at bit 63 and straddles two words.
CHUNK_WIDTH == 3
CHUNK_DEPTH == 2
CHUNK_HEIGHT == 4

\* Block ids range over 0 .. MaxBlockId (BlockId is u16 in the source).
MaxBlockId == 5

\* Largest limits and palette length tried besides the configured ones.
MaxHorizontalLimit == 12
MaxVerticalLimit == 9
MaxPaletteLen == 300

\* Scaled world of the chunk scheduler (lib.rs: GameState::build takes the
\* ranges of HORIZONTAL_LIMIT = 1024 and VERTICAL_LIMIT = 65, and
\* CHUNK_CACHE_CHUNKS_PER_FRAME is 256).
SchedulerHorizontalLimit == 1
SchedulerVerticalLimit == 11
CHUNK_CACHE_CHUNKS_PER_FRAME == 3

\* Largest distance of view_z from DEFAULT_VIEW_Z.
MaxViewZ == 9

\* Limits of the populate call long enough to pass NOTIFY_EVERY chunks.
LongHorizontalLimit == 15
LongVerticalLimit == 12

\* Scaled inventory (inventory.rs: INVENTORY_SLOTS is 10 and
\* MAX_INVENTORY_UNITS is 64).
INVENTORY_SLOTS == 2
MAX_INVENTORY_UNITS == 3

-----------------------------------------------------------------------------
\* Program constants.

AIR == 0
DIRT == 1
STONE == 2
IRON == 3
BEDROCK == 4
CORE == 5

HORIZONTAL_LIMIT == 1024
VERTICAL_LIMIT == 65

\* Width of one packed word (Vec<u64>) and of usize::BITS on a 64-bit target.
\* droneforge-web lib.rs
DEFAULT_VIEW_Z == 0
PRELOAD_Z_RADIUS == 5

\* populate_within_limits_with_progress: notify_every
NOTIFY_EVERY == 1000

WORD_BITS == 64
USIZE_BITS == 64

CHUNK_BLOCKS == CHUNK_WIDTH * CHUNK_DEPTH * CHUNK_HEIGHT

BlockIds == 0..MaxBlockId

-----------------------------------------------------------------------------
\* Values.

ChunkPosition(x, y, z) == [x |-> x, y |-> y, z |-> z]
LocalBlockCoord(x, y, z) == [x |-> x, y |-> y, z |-> z]
WorldCoord(x, y, z) == [x |-> x, y |-> y, z |-> z]

Ok(v) == [ok |-> TRUE, val |-> v]
Err(e) == [ok |-> FALSE, err |-> e]
OutOfBounds == <<"OutOfBounds">>
InvalidBlockCount(n) == <<"InvalidBlockCount", n>>
Some(v) == <<v>>
None == <<>>

\* Vec indexing from 0.
At(vec, i) == vec[i + 1]

\* The elements of a sequence collected into a Vec (the same sequence,
\* fully evaluated).
collect(vec) == SubSeq(vec, 1, Len(vec))

\* i32::abs
Abs(n) == IF n < 0 THEN -n ELSE n

\* i32 `/` and `%`: truncation toward zero.
TruncDiv(a, b) ==
    LET q == (IF a < 0 THEN -a ELSE a) \div (IF b < 0 THEN -b ELSE b)
    IN IF (a < 0) = (b < 0) THEN q ELSE -q
TruncRem(a, b) == a - b * TruncDiv(a, b)

\* `n as usize` of an i32: the identity on non-negative values; a negative
\* value wraps to a huge one, which is represented at the top of the
\* checker's integer range (2^31 + n) instead of 2^64 + n.
as_usize(n) == IF n >= 0 THEN n ELSE 2147483647 + n + 1

-----------------------------------------------------------------------------
\* u64 values as sets of set bit positions.

U64Zero == {}
\* `n as u64` of a usize: bit b is set when the b-th binary digit of n is 1.
RECURSIVE U64Bits(_, _)
U64Bits(n, b) ==
    IF n = 0 THEN {}
    ELSE (IF n % 2 = 1 THEN {b} ELSE {}) \cup U64Bits(n \div 2, b + 1)
U64FromUsize(n) == U64Bits(n, 0)
\* `v as usize` of a u64 below 2^31.
RECURSIVE U64ToUsize(_)
U64ToUsize(v) ==
    IF v = {} THEN 0
    ELSE LET b == CHOOSE x \in v : TRUE IN 2^b + U64ToUsize(v \ {b})
Shl(v, k) == {b + k : b \in v} \cap (0..(WORD_BITS - 1))
Shr(v, k) == {b - k : b \in v} \cap (0..(WORD_BITS - 1))
BitOr(v, w) == v \cup w
BitAnd(v, w) == v \cap w
\* (1u64 << bits) - 1
LowMask(bits) == 0..(bits - 1)

-----------------------------------------------------------------------------
\* chunk.rs

\* Chunk::new
ChunkNew(position, default_block) ==
    [position |-> position, blocks |-> [i \in 1..CHUNK_BLOCKS |-> default_block]]

\* Chunk::block_index
block_index(coord) ==
    IF coord.x >= CHUNK_WIDTH \/ coord.y >= CHUNK_DEPTH \/ coord.z >= CHUNK_HEIGHT
    THEN Err(OutOfBounds)
    ELSE Ok(coord.x + coord.y * CHUNK_WIDTH + coord.z * CHUNK_WIDTH * CHUNK_DEPTH)

\* Chunk::get_block
chunk_get_block(c, coord) ==
    LET index == block_index(coord)
    IN IF ~index.ok THEN index ELSE Ok(At(c.blocks, index.val))

\* Chunk::set_block: the result and the chunk afterwards.
chunk_set_block(c, coord, block) ==
    LET index == block_index(coord)
    IN IF ~index.ok
       THEN [result |-> index, chunk |-> c]
       ELSE [result |-> Ok(<<>>),
             chunk |-> [c EXCEPT !.blocks[index.val + 1] = block]]

\* Chunk::apply_block_save: the result and the chunk afterwards.
apply_block_save(c, data) ==
    IF Len(data.blocks) # CHUNK_BLOCKS
    THEN [result |-> Err(InvalidBlockCount(Len(data.blocks))), chunk |-> c]
    ELSE [result |-> Ok(<<>>), chunk |-> [c EXCEPT !.blocks = data.blocks]]

-----------------------------------------------------------------------------
\* chunk_cache.rs: palette compression.

\* build_palette: the palette in first-seen order and the id -> index map.
RECURSIVE build_palette_from(_, _, _, _)
build_palette_from(blocks, i, palette, indices) ==
    IF i > Len(blocks) THEN [palette |-> palette, indices |-> indices]
    ELSE LET block == blocks[i]
         IN IF block \notin DOMAIN indices
            THEN build_palette_from(blocks, i + 1, Append(palette, block),
                                    (block :> Len(palette)) @@ indices)
            ELSE build_palette_from(blocks, i + 1, palette, indices)
build_palette(blocks) == build_palette_from(blocks, 1, <<>>, <<>>)

\* usize::leading_zeros of a value below 2^31.
leading_zeros(n) == USIZE_BITS - Cardinality({b \in 0..30 : 2^b <= n})

\* bits_required counting the bits of palette_len instead of palette_len - 1.
bits_required_of_len(palette_len) ==
    IF palette_len <= 1 THEN 0
    ELSE USIZE_BITS - leading_zeros(palette_len)

bits_required(palette_len) ==
    IF palette_len <= 1 THEN 0
    ELSE USIZE_BITS - leading_zeros(IF palette_len >= 1 THEN palette_len - 1 ELSE 0)

\* pack_contribution without the write of the spilled high bits into the
\* next word.
pack_contribution_no_spill(i, palette_index, bits_per_index, w) ==
    LET offset == i * bits_per_index
        value == BitAnd(U64FromUsize(palette_index), LowMask(bits_per_index))
    IN IF w = offset \div WORD_BITS THEN Shl(value, offset % WORD_BITS) ELSE U64Zero

\* One iteration of the pack_blocks loop, for voxel i (from 0): the bits it
\* ORs into word w (from 0) of the packed array.
pack_contribution(i, palette_index, bits_per_index, w) ==
    LET mask == LowMask(bits_per_index)
        offset == i * bits_per_index
        word_index == offset \div WORD_BITS
        bit_in_word == offset % WORD_BITS
        value == BitAnd(U64FromUsize(palette_index), mask)
        bits_written == bit_in_word + bits_per_index
    IN IF w = word_index THEN Shl(value, bit_in_word)
       ELSE IF w = word_index + 1 /\ bits_written > WORD_BITS
            THEN LET spill_bits == bits_written - WORD_BITS
                 IN Shr(value, bits_per_index - spill_bits)
       ELSE U64Zero

\* pack_blocks: every word starts as 0 and is the OR of what the loop's
\* iterations write into it.
pack_blocks(blocks, palette_indices, bits_per_index) ==
    IF bits_per_index = 0 THEN <<>>
    ELSE LET total_bits == Len(blocks) * bits_per_index
             u64_len == (total_bits + 63) \div 64
         IN collect([w \in 1..u64_len |->
                UNION {pack_contribution(i, palette_indices[At(blocks, i)],
                                         bits_per_index, w - 1) :
                       i \in 0..(Len(blocks) - 1)}])

unpack_index(packed, index, bits_per_index) ==
    LET offset == index * bits_per_index
        word_index == offset \div WORD_BITS
        bit_in_word == offset % WORD_BITS
        mask == LowMask(bits_per_index)
        value == BitAnd(Shr(At(packed, word_index), bit_in_word), mask)
        bits_read == bit_in_word + bits_per_index
    IN IF bits_read > WORD_BITS
       THEN LET spill_bits == bits_read - WORD_BITS
                spill_mask == LowMask(spill_bits)
                spill == BitAnd(At(packed, word_index + 1), spill_mask)
            IN BitOr(value, Shl(spill, bits_per_index - spill_bits))
       ELSE value

\* CachedChunk::from_chunk_with_changed
from_chunk_with_changed(c, changed) ==
    LET built == build_palette(c.blocks)
        bits_per_index == bits_required(Len(built.palette))
    IN [position |-> c.position,
        palette |-> built.palette,
        blocks |-> pack_blocks(c.blocks, built.indices, bits_per_index),
        bits_per_index |-> bits_per_index,
        changed |-> changed]

\* CachedChunk::from_chunk
from_chunk(c) == from_chunk_with_changed(c, FALSE)

\* CachedChunk::get_block
cached_get_block(cc, coord) ==
    IF Len(cc.palette) = 0 THEN Err(InvalidBlockCount(0))
    ELSE LET index == block_index(coord)
         IN IF ~index.ok THEN index
            ELSE IF cc.bits_per_index = 0 THEN Ok(At(cc.palette, 0))
            ELSE LET palette_index ==
                         U64ToUsize(unpack_index(cc.blocks, index.val, cc.bits_per_index))
                 IN IF palette_index < Len(cc.palette)
                    THEN Ok(At(cc.palette, palette_index))
                    ELSE Err(InvalidBlockCount(palette_index))

-----------------------------------------------------------------------------
\* worldgen.rs: DeterministicMap.

\* i32::saturating_add(1)
saturating_add_1(z) == IF z >= 2147483647 THEN 2147483647 ELSE z + 1

\* within_bounds that checks the vertical limit only.
within_bounds_vertical_only(coord) ==
    -VERTICAL_LIMIT <= coord.z /\ coord.z <= VERTICAL_LIMIT

\* within_bounds
within_bounds(coord) ==
    /\ -HORIZONTAL_LIMIT <= coord.x /\ coord.x <= HORIZONTAL_LIMIT
    /\ -HORIZONTAL_LIMIT <= coord.y /\ coord.y <= HORIZONTAL_LIMIT
    /\ -VERTICAL_LIMIT <= coord.z /\ coord.z <= VERTICAL_LIMIT

\* rng_for_coord(coord).u32(0..100): a draw in 0..99 fixed by the seed and the
\* coordinate. The hash (SipHash of seed and coordinate feeding fastrand) is
\* stood in for by a fixed mixing function of the same arguments.
rng_u32(s, coord) == (s * 37 + coord.x * 31 + coord.y * 17 + coord.z * 13) % 100

\* The ore draw shared by both deep rules: IRON with probability 5 in 100.
ore_or_stone(s, shifted) == IF rng_u32(s, shifted) < 5 THEN IRON ELSE STONE

\* DeterministicMap::block_at
block_at(s, coord) ==
    LET shifted == WorldCoord(coord.x, coord.y, saturating_add_1(coord.z))
    IN IF ~within_bounds(shifted) THEN AIR
       ELSE IF shifted.z = VERTICAL_LIMIT THEN AIR
       ELSE IF shifted.z = -VERTICAL_LIMIT THEN BEDROCK
       ELSE IF shifted.x <= 0
            THEN IF -4 <= shifted.z /\ shifted.z <= 0 THEN DIRT
                 ELSE IF -64 <= shifted.z /\ shifted.z <= -5 THEN ore_or_stone(s, shifted)
                 ELSE AIR
       ELSE IF \/ (shifted.x > 0 /\ -64 <= shifted.z /\ shifted.z <= 0)
               \/ (shifted.x - shifted.z + 1 > 0 /\ shifted.z > 0)
            THEN ore_or_stone(s, shifted)
       ELSE AIR

\* The local coordinate visited n-th (from 0) by the loops over z, y, x.
nth_local(n) ==
    LocalBlockCoord(n % CHUNK_WIDTH, (n \div CHUNK_WIDTH) % CHUNK_DEPTH,
                    n \div (CHUNK_WIDTH * CHUNK_DEPTH))

\* The block populate_chunk generates for a local coordinate of a chunk.
populate_block(s, position, local) ==
    LET base_x == position.x * CHUNK_WIDTH
        base_y == position.y * CHUNK_DEPTH
        base_z == position.z * CHUNK_HEIGHT
        world_coord == WorldCoord(base_x + local.x, base_y + local.y, base_z + local.z)
    IN block_at(s, world_coord)

\* populate_chunk that writes only the voxels whose generated block is not
\* AIR (as if the buffer were freshly filled with AIR).
populate_chunk_skip_air(s, c, position) ==
    [position |-> position,
     blocks |-> collect([i \in DOMAIN c.blocks |->
        LET block == populate_block(s, position, nth_local(i - 1))
        IN IF block = AIR THEN c.blocks[i] ELSE block])]

\* populate_chunk without the assignment of chunk.position.
populate_chunk_keep_position(s, c, position) ==
    [position |-> c.position,
     blocks |-> collect([i \in DOMAIN c.blocks |->
        populate_block(s, position, nth_local(i - 1))])]

\* DeterministicMap::populate_chunk: the buffer afterwards. The loops over
\* z, y, x write each visited voxel once, at block_index(local); slot i is
\* written by the iteration at nth_local(i), and a slot no iteration writes
\* keeps its value.
populate_chunk(s, c, position) ==
    [position |-> position,
     blocks |-> collect([i \in DOMAIN c.blocks |->
        LET local == nth_local(i - 1)
        IN IF block_index(local) = Ok(i - 1)
           THEN populate_block(s, position, local)
           ELSE c.blocks[i]])]

\* DeterministicMap::chunk_for_position
chunk_for_position(s, position) == populate_chunk(s, ChunkNew(position, AIR), position)

-----------------------------------------------------------------------------
\* chunk_cache.rs: coordinates and the cache operations.

\* div_floor that truncates toward zero.
div_floor_truncating(a, b) == TruncDiv(a, b)

div_floor(a, b) ==
    LET d == TruncDiv(a, b)
        r == TruncRem(a, b)
    IN IF r # 0 /\ ((r < 0) # (b < 0)) THEN d - 1 ELSE d

chunk_and_local_for_world_coord(coord) ==
    LET chunk_x == div_floor(coord.x, CHUNK_WIDTH)
        chunk_y == div_floor(coord.y, CHUNK_DEPTH)
        chunk_z == div_floor(coord.z, CHUNK_HEIGHT)
        local_x == as_usize(coord.x - chunk_x * CHUNK_WIDTH)
        local_y == as_usize(coord.y - chunk_y * CHUNK_DEPTH)
        local_z == as_usize(coord.z - chunk_z * CHUNK_HEIGHT)
    IN [chunk_pos |-> ChunkPosition(chunk_x, chunk_y, chunk_z),
        local |-> LocalBlockCoord(local_x, local_y, local_z)]

\* chunk_range_bounds whose lower ends are the negated upper ends.
chunk_range_bounds_mirrored(horizontal_limit, vertical_limit) ==
    [min_chunk_x |-> -div_floor(horizontal_limit, CHUNK_WIDTH),
     max_chunk_x |-> div_floor(horizontal_limit, CHUNK_WIDTH),
     min_chunk_y |-> -div_floor(horizontal_limit, CHUNK_DEPTH),
     max_chunk_y |-> div_floor(horizontal_limit, CHUNK_DEPTH),
     min_chunk_z |-> -div_floor(vertical_limit, CHUNK_HEIGHT),
     max_chunk_z |-> div_floor(vertical_limit, CHUNK_HEIGHT)]

\* chunk_range_bounds: the inclusive chunk-coordinate range on each axis.
chunk_range_bounds(horizontal_limit, vertical_limit) ==
    [min_chunk_x |-> div_floor(-horizontal_limit, CHUNK_WIDTH),
     max_chunk_x |-> div_floor(horizontal_limit, CHUNK_WIDTH),
     min_chunk_y |-> div_floor(-horizontal_limit, CHUNK_DEPTH),
     max_chunk_y |-> div_floor(horizontal_limit, CHUNK_DEPTH),
     min_chunk_z |-> div_floor(-vertical_limit, CHUNK_HEIGHT),
     max_chunk_z |-> div_floor(vertical_limit, CHUNK_HEIGHT)]

\* range_vec of the half-open range min..max.
range_vec_exclusive(lo, hi) == [i \in 1..(IF hi > lo THEN hi - lo ELSE 0) |-> lo + i - 1]

\* min..=max collected into a Vec.
range_vec(lo, hi) == [i \in 1..(IF hi >= lo THEN hi - lo + 1 ELSE 0) |-> lo + i - 1]

\* ChunkCache::chunk_ranges_for_limits
chunk_ranges_for_limits(horizontal_limit, vertical_limit) ==
    LET b == chunk_range_bounds(horizontal_limit, vertical_limit)
    IN [xs |-> range_vec(b.min_chunk_x, b.max_chunk_x),
        ys |-> range_vec(b.min_chunk_y, b.max_chunk_y),
        zs |-> range_vec(b.min_chunk_z, b.max_chunk_z)]

\* RangeInclusive::count
range_count(lo, hi) == IF hi >= lo THEN hi - lo + 1 ELSE 0

\* ChunkCache::chunk_count_for_limits
chunk_count_for_limits(horizontal_limit, vertical_limit) ==
    LET b == chunk_range_bounds(horizontal_limit, vertical_limit)
    IN range_count(b.min_chunk_x, b.max_chunk_x)
       * range_count(b.min_chunk_y, b.max_chunk_y)
       * range_count(b.min_chunk_z, b.max_chunk_z)

\* HashMap::insert
map_insert(m, k, v) == (k :> v) @@ m

\* ChunkCache::has_chunk
has_chunk(cs, position) == position \in DOMAIN cs

\* ChunkCache::populate_chunk_at on the pair (chunks, reusable_chunk).
populate_chunk_at(cache, s, position) ==
    LET buffer == populate_chunk(s, cache.reusable_chunk, position)
    IN [chunks |-> map_insert(cache.chunks, position, from_chunk(buffer)),
        reusable_chunk |-> buffer]

\* The position visited n-th (from 0) by the loops over xs, ys, zs of
\* populate_within_limits_with_progress.
nth_position(r, n) ==
    ChunkPosition(At(r.xs, n \div (Len(r.ys) * Len(r.zs))),
                  At(r.ys, (n \div Len(r.zs)) % Len(r.ys)),
                  At(r.zs, n % Len(r.zs)))

RECURSIVE populate_positions(_, _, _, _, _)
populate_positions(cache, s, r, n, total_chunks) ==
    IF n >= total_chunks THEN cache
    ELSE populate_positions(populate_chunk_at(cache, s, nth_position(r, n)),
                            s, r, n + 1, total_chunks)

\* ChunkCache::populate_within_limits (no progress callback).
populate_within_limits(cache, s, horizontal_limit, vertical_limit) ==
    LET r == chunk_ranges_for_limits(horizontal_limit, vertical_limit)
        total_chunks == Len(r.xs) * Len(r.ys) * Len(r.zs)
    IN populate_positions(cache, s, r, 0, total_chunks)

\* The locals of populate_within_limits_with_progress before its loops;
\* `progress` tells whether a callback was passed, `calls` lists the
\* callback's invocations and `visited` the positions populated so far.
populate_begin(horizontal_limit, vertical_limit, progress) ==
    LET r == chunk_ranges_for_limits(horizontal_limit, vertical_limit)
        total_chunks == Len(r.xs) * Len(r.ys) * Len(r.zs)
    IN [pc |-> IF total_chunks = 0 THEN "done" ELSE "loop",
        horizontal_limit |-> horizontal_limit, vertical_limit |-> vertical_limit,
        progress |-> progress, r |-> r, total_chunks |-> total_chunks,
        loaded |-> 0, last_notified |-> 0, calls |-> <<>>, visited |-> <<>>]

\* progress_due that asks for a notification after every chunk.
progress_due_every_chunk(loaded, total_chunks) == TRUE

\* The test that decides a notification inside the loops.
progress_due(loaded, total_chunks) ==
    loaded % NOTIFY_EVERY = 0 \/ loaded = total_chunks

\* The locals after one pass of the innermost loop body and, after the last
\* pass, after the notification that follows the loops.
populate_iteration(p) ==
    LET position == nth_position(p.r, p.loaded)
        loaded == p.loaded + 1
        notify == p.progress /\ progress_due(loaded, p.total_chunks)
        calls1 == IF notify THEN Append(p.calls, [loaded |-> loaded, total |-> p.total_chunks])
                  ELSE p.calls
        last_notified == IF notify THEN loaded ELSE p.last_notified
        finished == loaded = p.total_chunks
        calls2 == IF finished /\ p.progress /\ loaded > 0 /\ loaded # last_notified
                  THEN Append(calls1, [loaded |-> loaded, total |-> p.total_chunks])
                  ELSE calls1
    IN [p EXCEPT !.pc = IF finished THEN "done" ELSE "loop",
                 !.loaded = loaded, !.last_notified = last_notified,
                 !.calls = calls2, !.visited = Append(p.visited, position)]

\* block_at_world that reports an AIR voxel like a missing chunk.
block_at_world_air_is_none(cs, coord) ==
    LET d == chunk_and_local_for_world_coord(coord)
    IN IF ~has_chunk(cs, d.chunk_pos) THEN None
       ELSE LET got == cached_get_block(cs[d.chunk_pos], d.local)
            IN IF got.ok /\ got.val # AIR THEN Some(got.val) ELSE None

\* ChunkCache::block_at_world
block_at_world(cs, coord) ==
    LET d == chunk_and_local_for_world_coord(coord)
    IN IF ~has_chunk(cs, d.chunk_pos) THEN None
       ELSE LET got == cached_get_block(cs[d.chunk_pos], d.local)
            IN IF got.ok THEN Some(got.val) ELSE None

\* chunkblocks_from_cached with the loops nested in the order x, y, z.
chunkblocks_from_cached_xyz(cc) ==
    collect([i \in 1..CHUNK_BLOCKS |->
        LET n == i - 1
            coord == LocalBlockCoord(n \div (CHUNK_DEPTH * CHUNK_HEIGHT),
                                     (n \div CHUNK_HEIGHT) % CHUNK_DEPTH,
                                     n % CHUNK_HEIGHT)
            got == cached_get_block(cc, coord)
        IN IF got.ok THEN got.val ELSE AIR])

\* chunkblocks_from_cached: every voxel decoded in the order z, y, x.
chunkblocks_from_cached(cc) ==
    collect([i \in 1..CHUNK_BLOCKS |->
        LET got == cached_get_block(cc, nth_local(i - 1))
        IN IF got.ok THEN got.val ELSE AIR])

\* chunk_from_cached
chunk_from_cached(cc) ==
    LET blocks_struct == [position |-> cc.position,
                          blocks |-> chunkblocks_from_cached(cc),
                          changed |-> cc.changed]
        applied == apply_block_save(ChunkNew(cc.position, AIR), blocks_struct)
    IN IF applied.result.ok THEN Ok(applied.chunk) ELSE applied.result

\* set_block that marks the chunk changed only when the block written
\* differs from the block stored.
set_block_marks_differences(cs, coord, block) ==
    LET d == chunk_and_local_for_world_coord(coord)
    IN IF ~has_chunk(cs, d.chunk_pos)
       THEN [result |-> Err(OutOfBounds), chunks |-> cs]
       ELSE LET rehydrated == chunk_from_cached(cs[d.chunk_pos])
            IN IF ~rehydrated.ok THEN [result |-> rehydrated, chunks |-> cs]
               ELSE LET edited == chunk_set_block(rehydrated.val, d.local, block)
                    IN IF ~edited.result.ok
                       THEN [result |-> edited.result, chunks |-> cs]
                       ELSE [result |-> Ok(<<>>),
                             chunks |-> map_insert(cs, d.chunk_pos,
                                 from_chunk_with_changed(edited.chunk,
                                     cs[d.chunk_pos].changed
                                     \/ edited.chunk # rehydrated.val))]

\* ChunkCache::set_block: the result and the chunk map afterwards.
set_block(cs, coord, block) ==
    LET d == chunk_and_local_for_world_coord(coord)
    IN IF ~has_chunk(cs, d.chunk_pos)
       THEN [result |-> Err(OutOfBounds), chunks |-> cs]
       ELSE LET rehydrated == chunk_from_cached(cs[d.chunk_pos])
            IN IF ~rehydrated.ok THEN [result |-> rehydrated, chunks |-> cs]
               ELSE LET edited == chunk_set_block(rehydrated.val, d.local, block)
                    IN IF ~edited.result.ok
                       THEN [result |-> edited.result, chunks |-> cs]
                       ELSE [result |-> Ok(<<>>),
                             chunks |-> map_insert(cs, d.chunk_pos,
                                 from_chunk_with_changed(edited.chunk, TRUE))]

-----------------------------------------------------------------------------
\* droneforge-web lib.rs: the chunk scheduler of GameState. A GameState is
\* the record [chunks, reusable_chunk, view_z, queue, queued, skip].

\* i32::saturating_add and i32::saturating_sub
saturating_add(a, b) ==
    IF a + b > 2147483647 THEN 2147483647
    ELSE IF a + b < -2147483647 - 1 THEN -2147483647 - 1
    ELSE a + b
saturating_sub(a, b) == saturating_add(a, -b)

\* GameState::build: world_chunk_xs, world_chunk_ys, world_chunk_zs and
\* world_chunk_z_set.
world_chunk_xs == chunk_ranges_for_limits(SchedulerHorizontalLimit, SchedulerVerticalLimit).xs
world_chunk_ys == chunk_ranges_for_limits(SchedulerHorizontalLimit, SchedulerVerticalLimit).ys
world_chunk_zs == chunk_ranges_for_limits(SchedulerHorizontalLimit, SchedulerVerticalLimit).zs
world_chunk_z_set == {world_chunk_zs[i] : i \in 1..Len(world_chunk_zs)}

\* The elements of vec at the indices in keep, in order.
retain(vec, keep) ==
    [k \in 1..Cardinality(keep) |->
        vec[CHOOSE i \in keep : Cardinality({j \in keep : j < i}) = k - 1]]

\* The levels listed by prime_chunk_cache_queue and
\* reprioritize_chunk_cache_for_view: the level below the base, the base,
\* then base + dz for dz from -PRELOAD_Z_RADIUS - 1 to PRELOAD_Z_RADIUS
\* without -1 and 0.
prioritized_levels(base_world_z) ==
    LET dzs == [i \in 1..(2 * PRELOAD_Z_RADIUS + 2) |-> -PRELOAD_Z_RADIUS - 2 + i]
        kept == retain(dzs, {i \in DOMAIN dzs : dzs[i] # -1 /\ dzs[i] # 0})
    IN <<saturating_sub(base_world_z, 1), base_world_z>>
       \o [i \in DOMAIN kept |-> saturating_add(base_world_z, kept[i])]

\* ordered_chunk_zs that keeps only the planes of the listed levels.
ordered_chunk_zs_listed_only(levels) ==
    LET chunk_zs == [i \in DOMAIN levels |-> div_floor(levels[i], CHUNK_HEIGHT)]
    IN retain(chunk_zs, {i \in DOMAIN chunk_zs :
                            /\ chunk_zs[i] \in world_chunk_z_set
                            /\ \A j \in 1..(i - 1) : chunk_zs[j] # chunk_zs[i]})

\* rebuild_chunk_cache_queue_from_world_levels: ordered_chunk_zs, the world
\* planes of the levels without repetition, then the other world planes.
ordered_chunk_zs(levels) ==
    LET chunk_zs == [i \in DOMAIN levels |-> div_floor(levels[i], CHUNK_HEIGHT)]
        first == retain(chunk_zs, {i \in DOMAIN chunk_zs :
                            /\ chunk_zs[i] \in world_chunk_z_set
                            /\ \A j \in 1..(i - 1) : chunk_zs[j] # chunk_zs[i]})
        seen_chunk_zs == {first[i] : i \in DOMAIN first}
    IN first \o retain(world_chunk_zs,
                       {i \in DOMAIN world_chunk_zs : world_chunk_zs[i] \notin seen_chunk_zs})

\* queue_chunk_cache_position without the has_chunk test.
queue_chunk_cache_position_ignores_cache(g, position) ==
    IF position \in g.queued THEN g
    ELSE [g EXCEPT !.queued = g.queued \cup {position},
                   !.queue = Append(g.queue, position)]

\* GameState::queue_chunk_cache_position
queue_chunk_cache_position(g, position) ==
    IF has_chunk(g.chunks, position) \/ position \in g.queued THEN g
    ELSE [g EXCEPT !.queued = g.queued \cup {position},
                   !.queue = Append(g.queue, position)]

\* GameState::queue_full_chunk_plane from the n-th (from 0) position of the
\* plane on: chunk_y in the outer loop, chunk_x in the inner one.
RECURSIVE queue_full_chunk_plane_from(_, _, _)
queue_full_chunk_plane_from(g, chunk_z, n) ==
    IF n >= Len(world_chunk_ys) * Len(world_chunk_xs) THEN g
    ELSE queue_full_chunk_plane_from(
             queue_chunk_cache_position(g,
                 ChunkPosition(At(world_chunk_xs, n % Len(world_chunk_xs)),
                               At(world_chunk_ys, n \div Len(world_chunk_xs)),
                               chunk_z)),
             chunk_z, n + 1)

queue_full_chunk_plane(g, chunk_z) == queue_full_chunk_plane_from(g, chunk_z, 0)

RECURSIVE queue_planes(_, _, _)
queue_planes(g, chunk_zs, i) ==
    IF i > Len(chunk_zs) THEN g
    ELSE queue_planes(queue_full_chunk_plane(g, chunk_zs[i]), chunk_zs, i + 1)

\* GameState::rebuild_chunk_cache_queue_from_world_levels
rebuild_chunk_cache_queue_from_world_levels(g, levels) ==
    queue_planes([g EXCEPT !.queue = <<>>, !.queued = {}], ordered_chunk_zs(levels), 1)

\* GameState::prime_chunk_cache_queue
prime_chunk_cache_queue(g) ==
    rebuild_chunk_cache_queue_from_world_levels(g, prioritized_levels(DEFAULT_VIEW_Z))

\* GameState::reprioritize_chunk_cache_for_view
reprioritize_chunk_cache_for_view(g, base_world_z) ==
    [rebuild_chunk_cache_queue_from_world_levels(g, prioritized_levels(base_world_z))
        EXCEPT !.skip = TRUE]

\* GameState::set_view_z
set_view_z(g, next_view_z) ==
    IF g.view_z = next_view_z THEN g
    ELSE reprioritize_chunk_cache_for_view(
             [g EXCEPT !.view_z = next_view_z,
                       !.rendered_level = None,
                       !.rendered_level_dirty = TRUE],
             next_view_z)

\* GameState::shift_view_z
shift_view_z(g, delta) ==
    IF delta = 0 THEN g ELSE set_view_z(g, saturating_add(g.view_z, delta))

\* drain_queue without the per-frame budget.
RECURSIVE drain_queue_unbounded(_, _, _, _, _)
drain_queue_unbounded(g, s, processed, popped, generated) ==
    IF g.queue # <<>>
    THEN LET position == Head(g.queue)
             g1 == [g EXCEPT !.queue = Tail(g.queue), !.queued = g.queued \ {position}]
             cache == populate_chunk_at(
                          [chunks |-> g1.chunks, reusable_chunk |-> g1.reusable_chunk],
                          s, position)
         IN drain_queue_unbounded([g1 EXCEPT !.chunks = cache.chunks,
                                             !.reusable_chunk = cache.reusable_chunk],
                                  s, processed + 1, Append(popped, position),
                                  Append(generated, position))
    ELSE [g |-> g, skipped |-> FALSE, popped |-> popped, generated |-> generated,
          timed |-> processed > 0]

\* drain_queue that takes positions from the back of the queue.
RECURSIVE drain_queue_pop_back(_, _, _, _, _)
drain_queue_pop_back(g, s, processed, popped, generated) ==
    IF processed < CHUNK_CACHE_CHUNKS_PER_FRAME /\ g.queue # <<>>
    THEN LET position == g.queue[Len(g.queue)]
             g1 == [g EXCEPT !.queue = SubSeq(g.queue, 1, Len(g.queue) - 1),
                             !.queued = g.queued \ {position}]
             cache == populate_chunk_at(
                          [chunks |-> g1.chunks, reusable_chunk |-> g1.reusable_chunk],
                          s, position)
         IN drain_queue_pop_back([g1 EXCEPT !.chunks = cache.chunks,
                                            !.reusable_chunk = cache.reusable_chunk],
                                 s, processed + 1, Append(popped, position),
                                 Append(generated, position))
    ELSE [g |-> g, skipped |-> FALSE, popped |-> popped, generated |-> generated,
          timed |-> processed > 0]

\* drain_queue with the has_chunk test inverted: only cached positions are
\* populated.
RECURSIVE drain_queue_inverted_test(_, _, _, _, _)
drain_queue_inverted_test(g, s, processed, popped, generated) ==
    IF processed < CHUNK_CACHE_CHUNKS_PER_FRAME /\ g.queue # <<>>
    THEN LET position == Head(g.queue)
             g1 == [g EXCEPT !.queue = Tail(g.queue), !.queued = g.queued \ {position}]
         IN IF ~has_chunk(g1.chunks, position)
            THEN drain_queue_inverted_test(g1, s, processed, Append(popped, position),
                                           generated)
            ELSE drain_queue_inverted_test(g1, s, processed + 1, Append(popped, position),
                                           Append(generated, position))
    ELSE [g |-> g, skipped |-> FALSE, popped |-> popped, generated |-> generated,
          timed |-> processed > 0]

\* The loop of process_chunk_cache_queue: `popped` and `generated` list the
\* positions taken from the queue and those populated.
RECURSIVE drain_queue(_, _, _, _, _)
drain_queue(g, s, processed, popped, generated) ==
    IF processed < CHUNK_CACHE_CHUNKS_PER_FRAME /\ g.queue # <<>>
    THEN LET position == Head(g.queue)
             g1 == [g EXCEPT !.queue = Tail(g.queue), !.queued = g.queued \ {position}]
         IN IF has_chunk(g1.chunks, position)
            THEN drain_queue(g1, s, processed, Append(popped, position), generated)
            ELSE LET cache == populate_chunk_at(
                                  [chunks |-> g1.chunks, reusable_chunk |-> g1.reusable_chunk],
                                  s, position)
                 IN drain_queue([g1 EXCEPT !.chunks = cache.chunks,
                                           !.reusable_chunk = cache.reusable_chunk],
                                s, processed + 1, Append(popped, position),
                                Append(generated, position))
    ELSE [g |-> g, skipped |-> FALSE, popped |-> popped, generated |-> generated,
          timed |-> processed > 0]

\* process_chunk_cache_queue that ignores the skip flag.
process_chunk_cache_queue_no_skip(g, s) == drain_queue(g, s, 0, <<>>, <<>>)

\* process_chunk_cache_queue that leaves the skip flag set.
process_chunk_cache_queue_keep_skip(g, s) ==
    IF g.skip
    THEN [g |-> g, skipped |-> TRUE, popped |-> <<>>, generated |-> <<>>, timed |-> FALSE]
    ELSE drain_queue(g, s, 0, <<>>, <<>>)

\* GameState::process_chunk_cache_queue: the state afterwards, whether the
\* call was skipped, what it popped and generated, and whether it recorded a
\* frame time.
process_chunk_cache_queue(g, s) ==
    IF g.skip
    THEN [g |-> [g EXCEPT !.skip = FALSE], skipped |-> TRUE,
          popped |-> <<>>, generated |-> <<>>, timed |-> FALSE]
    ELSE drain_queue(g, s, 0, <<>>, <<>>)

-----------------------------------------------------------------------------
\* linecast.rs: first_solid_supercover.

\* is_solid
is_solid(block) == block # None /\ block[1] # AIR

\* i32::saturating_mul(2)
saturating_mul_2(n) ==
    IF n > 1073741823 THEN 2147483647
    ELSE IF n < -1073741824 THEN -2147483647 - 1
    ELSE n * 2

\* The locals of first_solid_supercover before its loop; `examined` lists the
\* coordinates passed to block_at_world so far.
line_begin(start, end) ==
    LET x0 == start.x
        y0 == start.y
        x1 == end.x
        y1 == end.y
    IN [pc |-> "loop", start |-> start, end |-> end,
        x0 |-> x0, y0 |-> y0, z |-> start.z,
        dx |-> Abs(x1 - x0), dy |-> Abs(y1 - y0),
        sx |-> IF x0 < x1 THEN 1 ELSE IF x0 > x1 THEN -1 ELSE 0,
        sy |-> IF y0 < y1 THEN 1 ELSE IF y0 > y1 THEN -1 ELSE 0,
        err |-> Abs(x1 - x0) - Abs(y1 - y0),
        first_point |-> TRUE, examined |-> <<>>, result |-> None]

\* line_step that leaves y0 where it is when the y test fires.
line_step_keeps_y(l) ==
    LET e2 == saturating_mul_2(l.err)
        step_x == e2 > -l.dy
        err1 == IF step_x THEN l.err - l.dy ELSE l.err
        x0 == IF step_x THEN l.x0 + l.sx ELSE l.x0
        step_y == e2 < l.dx
        err2 == IF step_y THEN err1 + l.dx ELSE err1
    IN [x0 |-> x0, y0 |-> l.y0, err |-> err2, step_x |-> step_x, step_y |-> step_y]

\* The locals after the two step tests of one loop iteration.
line_step(l) ==
    LET e2 == saturating_mul_2(l.err)
        step_x == e2 > -l.dy
        err1 == IF step_x THEN l.err - l.dy ELSE l.err
        x0 == IF step_x THEN l.x0 + l.sx ELSE l.x0
        step_y == e2 < l.dx
        err2 == IF step_y THEN err1 + l.dx ELSE err1
        y0 == IF step_y THEN l.y0 + l.sy ELSE l.y0
    IN [x0 |-> x0, y0 |-> y0, err |-> err2, step_x |-> step_x, step_y |-> step_y]

\* line_tests_current that tests the start cell too.
line_tests_current_always(l) == TRUE

\* Whether the loop tests the current cell: not on the first point.
line_tests_current(l) == ~l.first_point

\* line_corners that tests no neighbour (plain Bresenham stepping).
line_corners_none(cs, l, st) == [examined |-> <<>>, hit |-> None]

\* The tests of the two orthogonal neighbours after a step of both axes:
\* the coordinates examined and the hit, if any.
line_corners(cs, l, st) ==
    LET neighbour_x == WorldCoord(st.x0 - l.sx, st.y0, l.z)
        neighbour_y == WorldCoord(st.x0, st.y0 - l.sy, l.z)
        seen_x == IF neighbour_x # l.start THEN <<neighbour_x>> ELSE <<>>
        seen_y == IF neighbour_y # l.start THEN <<neighbour_y>> ELSE <<>>
    IN IF ~(st.step_x /\ st.step_y) THEN [examined |-> <<>>, hit |-> None]
       ELSE IF neighbour_x # l.start /\ is_solid(block_at_world(cs, neighbour_x))
            THEN [examined |-> seen_x, hit |-> Some(neighbour_x)]
       ELSE IF neighbour_y # l.start /\ is_solid(block_at_world(cs, neighbour_y))
            THEN [examined |-> seen_x \o seen_y, hit |-> Some(neighbour_y)]
       ELSE [examined |-> seen_x \o seen_y, hit |-> None]

\* One iteration of the loop of first_solid_supercover: the locals
\* afterwards, with pc = "done" and the result once the function returns.
line_iteration(cs, l) ==
    LET current == WorldCoord(l.x0, l.y0, l.z)
        tested == line_tests_current(l)
        examined1 == IF tested THEN Append(l.examined, current) ELSE l.examined
    IN IF tested /\ is_solid(block_at_world(cs, current))
       THEN [l EXCEPT !.pc = "done", !.examined = examined1, !.result = Some(current)]
       ELSE IF l.x0 = l.end.x /\ l.y0 = l.end.y
       THEN [l EXCEPT !.pc = "done", !.examined = examined1, !.first_point = FALSE,
                      !.result = None]
       ELSE LET st == line_step(l)
                corners == line_corners(cs, l, st)
            IN [l EXCEPT !.pc = IF corners.hit # None THEN "done" ELSE "loop",
                         !.x0 = st.x0, !.y0 = st.y0, !.err = st.err,
                         !.first_point = FALSE,
                         !.examined = examined1 \o corners.examined,
                         !.result = corners.hit]

\* cache_with_solid_blocks of the tests: a cache holding, for every chunk
\* with one of the coordinates, a chunk of AIR with STONE at the coordinates.
cache_with_solid_blocks(coords) ==
    [p \in {chunk_and_local_for_world_coord(c).chunk_pos : c \in coords} |->
        from_chunk([position |-> p,
                    blocks |-> collect([i \in 1..CHUNK_BLOCKS |->
                        IF \E c \in coords :
                              LET d == chunk_and_local_for_world_coord(c)
                              IN d.chunk_pos = p /\ block_index(d.local) = Ok(i - 1)
                        THEN STONE ELSE AIR])])]

-----------------------------------------------------------------------------
\* Codec specification: a dense chunk is edited voxel by voxel
\* (Chunk::set_block) and compressed (CachedChunk::from_chunk).

LocalCoords ==
    {LocalBlockCoord(x, y, z) : x \in 0..(CHUNK_WIDTH - 1), y \in 0..(CHUNK_DEPTH - 1),
                                z \in 0..(CHUNK_HEIGHT - 1)}

\* Dense arrays to start from: voxel i holds block (i * stride) mod p, for
\* every palette size p and stride 1 or 5 (p = 1 is the uniform chunk).
CodecInputs ==
    {[i \in 1..CHUNK_BLOCKS |-> ((i - 1) * stride) % p] :
        p \in 1..(MaxBlockId + 1), stride \in {1, 5}}

NoCached == [position |-> ChunkPosition(0, 0, 0), palette |-> <<>>, blocks |-> <<>>,
             bits_per_index |-> 0, changed |-> FALSE]

\* No line query is in progress.
LineIdle == [pc |-> "idle"]

\* No populate_within_limits_with_progress call is in progress.
PopulateIdle == [pc |-> "idle"]

\* The scheduler fields as GameState::build sets them before priming.
SchedulerIdle ==
    /\ view_z = DEFAULT_VIEW_Z
    /\ chunk_cache_queue = <<>>
    /\ chunk_cache_queued = {}
    /\ skip_chunk_cache_processing = FALSE

\* inventory::empty_inventory
empty_inventory == [i \in 0..(INVENTORY_SLOTS - 1) |-> [block |-> None, count |-> 0]]

\* The render cache as GameState::build sets it, a World without chunks,
\* an empty inventory and a ToolController without selection.
GameIdle ==
    /\ rendered_level = None
    /\ rendered_level_dirty = TRUE
    /\ world_chunks = <<>>
    /\ slots = empty_inventory
    /\ selection = None

CacheIdle ==
    /\ chunks = <<>>
    /\ reusable_chunk = ChunkNew(ChunkPosition(0, 0, 0), AIR)
    /\ seed = 0
    /\ line = LineIdle
    /\ populate = PopulateIdle
    /\ SchedulerIdle

CodecInit ==
    /\ CacheIdle
    /\ GameIdle
    /\ last = [op |-> "init"]
    /\ chunk \in {[position |-> ChunkPosition(1, 0, 0), blocks |-> b] : b \in CodecInputs}
    /\ cached = NoCached

\* Chunk::set_block on the dense chunk; the compressed form of the previous
\* content is dropped.
ChunkSetBlock(coord, block) ==
    /\ LET r == chunk_set_block(chunk, coord, block)
       IN /\ chunk' = r.chunk
          /\ last' = [op |-> "chunk_set_block", result |-> r.result]
    /\ cached' = NoCached
    /\ UNCHANGED <<chunks, reusable_chunk, seed, line, populate, scheduler_vars, game_vars>>

\* CachedChunk::from_chunk of the dense chunk.
FromChunk ==
    /\ cached = NoCached
    /\ cached' = from_chunk(chunk)
    /\ last' = [op |-> "from_chunk"]
    /\ UNCHANGED <<chunks, reusable_chunk, seed, chunk, line, populate, scheduler_vars, game_vars>>

\* Local coordinates Chunk::set_block is called with: the first and the last
\* voxel, voxel 21 (whose 3-bit index straddles two words) and one outside
\* the chunk.
CodecEditCoords ==
    {nth_local(0), nth_local(21), nth_local(CHUNK_BLOCKS - 1),
     LocalBlockCoord(CHUNK_WIDTH, 0, 0)}

CodecNext ==
    \/ \E coord \in CodecEditCoords, block \in BlockIds : ChunkSetBlock(coord, block)
    \/ FromChunk

SpecCodec == CodecInit /\ [][CodecNext]_vars

-----------------------------------------------------------------------------
\* C3: compression is lossless: decoding a freshly compressed chunk at every
\* local coordinate returns exactly the block id the dense array holds there.
CompressionLossless ==
    cached # NoCached =>
        /\ cached.position = chunk.position
        /\ \A coord \in LocalCoords :
              cached_get_block(cached, coord) = chunk_get_block(chunk, coord)

\* Some index of the packed array straddles two words.
Straddles(cc) ==
    /\ cc.bits_per_index > 0
    /\ \E i \in 0..(CHUNK_BLOCKS - 1) :
          ((i * cc.bits_per_index) % WORD_BITS) + cc.bits_per_index > WORD_BITS

\* A compressed chunk whose index width does not divide the word width, with
\* a voxel whose index straddles two words holding a non-zero palette index.
CompressionLosslessWitness ==
    /\ cached # NoCached
    /\ Straddles(cached)
    /\ \E i \in 0..(CHUNK_BLOCKS - 1) :
          /\ ((i * cached.bits_per_index) % WORD_BITS) + cached.bits_per_index > WORD_BITS
          /\ At(chunk.blocks, i) # At(cached.palette, 0)

-----------------------------------------------------------------------------
\* Cache specification: one ChunkCache and one generator; chunks are
\* populated one at a time or within limits, and voxels are written.

\* Chunk positions populate_chunk_at is called with.
CachePositions ==
    {ChunkPosition(-1, 0, -1), ChunkPosition(0, 0, -1), ChunkPosition(0, 0, 0)}

\* Limits populate_within_limits is called with: the chunk ranges they give
\* stay inside CachePositions.
HorizontalLimits == {0}
VerticalLimits == {0, 1}

\* Every world coordinate of the chunks of CachePositions, and those of one
\* column of a chunk that is never populated (x = CHUNK_WIDTH).
WorldCoords ==
    {WorldCoord(x, y, z) : x \in (-CHUNK_WIDTH)..CHUNK_WIDTH,
                           y \in 0..(CHUNK_DEPTH - 1),
                           z \in (-CHUNK_HEIGHT)..(CHUNK_HEIGHT - 1)}

\* World coordinates set_block is called with: two voxels of chunk (0, 0, 0)
\* (generated as AIR and as rock), one of chunk (-1, 0, -1) and one of a
\* chunk that is never populated.
EditCoords ==
    {WorldCoord(0, 0, 0), WorldCoord(CHUNK_WIDTH - 1, 0, 0), WorldCoord(-1, 0, -1),
     WorldCoord(CHUNK_WIDTH, 0, 0)}

\* Blocks set_block writes.
EditBlocks == {AIR, CORE}

\* The seed of the generator the cache is populated from.
CacheSeeds == {7}

CodecIdle ==
    /\ chunk = ChunkNew(ChunkPosition(0, 0, 0), AIR)
    /\ cached = NoCached

\* ChunkCache::new, with a generator of some seed.
CacheInit ==
    /\ chunks = <<>>
    /\ reusable_chunk = ChunkNew(ChunkPosition(0, 0, 0), AIR)
    /\ seed \in CacheSeeds
    /\ last = [op |-> "init"]
    /\ CodecIdle
    /\ line = LineIdle
    /\ populate = PopulateIdle
    /\ SchedulerIdle
    /\ GameIdle

PopulateChunkAt(position) ==
    /\ LET after == populate_chunk_at([chunks |-> chunks, reusable_chunk |-> reusable_chunk],
                                      seed, position)
       IN /\ chunks' = after.chunks
          /\ reusable_chunk' = after.reusable_chunk
    /\ last' = [op |-> "populate_chunk_at", position |-> position]
    /\ UNCHANGED <<seed, chunk, cached, line, populate, scheduler_vars, game_vars>>

PopulateWithinLimits(horizontal_limit, vertical_limit) ==
    /\ LET after == populate_within_limits(
                        [chunks |-> chunks, reusable_chunk |-> reusable_chunk],
                        seed, horizontal_limit, vertical_limit)
       IN /\ chunks' = after.chunks
          /\ reusable_chunk' = after.reusable_chunk
    /\ last' = [op |-> "populate_within_limits", horizontal_limit |-> horizontal_limit,
                vertical_limit |-> vertical_limit]
    /\ UNCHANGED <<seed, chunk, cached, line, populate, scheduler_vars, game_vars>>

SetBlock(coord, block) ==
    /\ LET r == set_block(chunks, coord, block)
       IN /\ chunks' = r.chunks
          /\ last' = [op |-> "set_block", coord |-> coord, block |-> block,
                      result |-> r.result]
    /\ UNCHANGED <<reusable_chunk, seed, chunk, cached, line, populate, scheduler_vars, game_vars>>

CacheNext ==
    \/ \E position \in CachePositions : PopulateChunkAt(position)
    \/ \E h \in HorizontalLimits, v \in VerticalLimits : PopulateWithinLimits(h, v)
    \/ \E coord \in EditCoords, block \in EditBlocks : SetBlock(coord, block)

SpecCache == CacheInit /\ [][CacheNext]_vars

\* The chunk containing a world coordinate, by floored division per axis:
\* the k with k * size <= c < (k + 1) * size.
FlooredChunk ==
    [c \in WorldCoords |->
        ChunkPosition(CHOOSE k \in -2..1 : k * CHUNK_WIDTH <= c.x
                                           /\ c.x < (k + 1) * CHUNK_WIDTH,
                      CHOOSE k \in -2..1 : k * CHUNK_DEPTH <= c.y
                                           /\ c.y < (k + 1) * CHUNK_DEPTH,
                      CHOOSE k \in -2..1 : k * CHUNK_HEIGHT <= c.z
                                           /\ c.z < (k + 1) * CHUNK_HEIGHT)]
FlooredChunkOf(coord) == FlooredChunk[coord]

\* The world coordinates of the chunk at a position.
CoordsOfChunk ==
    [p \in {FlooredChunk[c] : c \in WorldCoords} |->
        {c \in WorldCoords : FlooredChunk[c] = p}]
CoordsOf(position) == CoordsOfChunk[position]

\* C1: set_block on a coordinate whose chunk is present returns Ok, stores
\* the block at that coordinate, leaves every other world coordinate and the
\* set of present chunks unchanged, and sets the chunk's changed flag.
SetBlockUpdatesOnlyTarget ==
    [][(last'.op = "set_block"
        /\ last' # last
        /\ FlooredChunkOf(last'.coord) \in DOMAIN chunks)
       => /\ last'.result = Ok(<<>>)
          /\ block_at_world(chunks', last'.coord) = Some(last'.block)
          /\ \A c \in WorldCoords \ {last'.coord} :
                block_at_world(chunks', c) = block_at_world(chunks, c)
          /\ DOMAIN chunks' = DOMAIN chunks
          /\ chunks'[FlooredChunkOf(last'.coord)].changed]_vars

\* A write that changed the stored block of a voxel in a chunk that holds
\* other non-AIR voxels, next to another present chunk.
SetBlockUpdatesOnlyTargetWitness ==
    /\ last.op = "set_block"
    /\ last.result = Ok(<<>>)
    /\ block_at_world(chunks, last.coord) # Some(block_at(seed, last.coord))
    /\ Cardinality(DOMAIN chunks) >= 2
    /\ \E c \in CoordsOf(FlooredChunkOf(last.coord)) \ {last.coord} :
          block_at_world(chunks, c) \notin {None, Some(AIR)}

\* C2: set_block on a coordinate whose chunk is absent fails with the
\* "chunk not loaded" storage-layer error kind (not OutOfBounds), inserts no
\* chunk and leaves the cache unchanged.
ChunkNotLoaded == <<"StorageError", "chunk not loaded">>
SetBlockAbsentFailsNotLoaded ==
    [][(last'.op = "set_block"
        /\ last' # last
        /\ FlooredChunkOf(last'.coord) \notin DOMAIN chunks)
       => /\ last'.result = Err(ChunkNotLoaded)
          /\ chunks' = chunks
          /\ reusable_chunk' = reusable_chunk]_vars

\* C4: block_at_world is None exactly for the coordinates whose chunk (by
\* floored decomposition) is absent; a present chunk always yields Some, so
\* an empty generated voxel reads Some(AIR), never None.
BlockAtWorldNoneIffAbsent ==
    \A c \in WorldCoords :
        /\ block_at_world(chunks, c) = None <=> FlooredChunkOf(c) \notin DOMAIN chunks
        /\ FlooredChunkOf(c) \in DOMAIN chunks =>
              block_at_world(chunks, c) =
                  Some(cached_get_block(chunks[FlooredChunkOf(c)],
                           LocalBlockCoord(c.x - FlooredChunkOf(c).x * CHUNK_WIDTH,
                                           c.y - FlooredChunkOf(c).y * CHUNK_DEPTH,
                                           c.z - FlooredChunkOf(c).z * CHUNK_HEIGHT)).val)

\* After a successful write, some present voxel with a negative coordinate
\* reads Some(AIR) while another chunk of the region is absent.
BlockAtWorldNoneIffAbsentWitness ==
    /\ last.op = "set_block"
    /\ last.result = Ok(<<>>)
    /\ \E c \in WorldCoords : c.x < 0 /\ c.z < 0 /\ block_at_world(chunks, c) = Some(AIR)
    /\ \E p \in CachePositions : p \notin DOMAIN chunks

\* C5: every populated chunk that was not edited since reads, at each of its
\* world coordinates, the generator's block for that coordinate, however
\* many other chunks went through the scratch buffer afterwards.
PopulatedChunksMatchGenerator ==
    \A p \in DOMAIN chunks :
        ~chunks[p].changed =>
            \A c \in CoordsOf(p) : block_at_world(chunks, c) = Some(block_at(seed, c))

\* Two unedited chunks of different content are present, and the scratch
\* buffer was last used for yet another position.
PopulatedChunksMatchGeneratorWitness ==
    /\ last.op = "populate_chunk_at"
    /\ \E p, q \in DOMAIN chunks :
          /\ p # q /\ ~chunks[p].changed /\ ~chunks[q].changed
          /\ chunks[p].palette # chunks[q].palette
          /\ reusable_chunk.position \notin {p, q}

-----------------------------------------------------------------------------
\* Generator specification: block_at is queried, and a chunk buffer of any
\* prior content is filled by populate_chunk or replaced by
\* chunk_for_position.

GenSeeds == {7, 42}

\* Chunk buffers to start from: Chunk::new at position (1, 0, 0), filled with
\* AIR, with DIRT or with CORE.
GenBuffers == {ChunkNew(ChunkPosition(1, 0, 0), b) : b \in {AIR, DIRT, CORE}}

\* Chunk positions generated: around the origin, and the chunks holding the
\* horizontal limit and the vertical limits (of z + 1).
GenPositions ==
    {ChunkPosition(x, y, z) :
        x \in {-1, 0, HORIZONTAL_LIMIT \div CHUNK_WIDTH},
        y \in {0},
        z \in {-1, 0, (VERTICAL_LIMIT - 1) \div CHUNK_HEIGHT,
               (-VERTICAL_LIMIT - 1) \div CHUNK_HEIGHT}}

\* World coordinates block_at is queried at: inside, on and beyond each limit.
GenCoords ==
    {WorldCoord(x, y, z) :
        x \in {-HORIZONTAL_LIMIT - 1, 0, HORIZONTAL_LIMIT, HORIZONTAL_LIMIT + 1},
        y \in {-HORIZONTAL_LIMIT - 1, 0, HORIZONTAL_LIMIT + 1},
        z \in {-VERTICAL_LIMIT - 2, -VERTICAL_LIMIT - 1, -VERTICAL_LIMIT, -10, 0,
               VERTICAL_LIMIT - 2, VERTICAL_LIMIT - 1, VERTICAL_LIMIT,
               VERTICAL_LIMIT + 1}}

GenInit ==
    /\ chunks = <<>>
    /\ reusable_chunk = ChunkNew(ChunkPosition(0, 0, 0), AIR)
    /\ seed \in GenSeeds
    /\ last = [op |-> "init"]
    /\ chunk \in GenBuffers
    /\ cached = NoCached
    /\ line = LineIdle
    /\ populate = PopulateIdle
    /\ SchedulerIdle
    /\ GameIdle

\* DeterministicMap::block_at
BlockAt(coord) ==
    /\ last' = [op |-> "block_at", coord |-> coord, result |-> block_at(seed, coord)]
    /\ UNCHANGED <<chunks, reusable_chunk, seed, chunk, cached, line, populate, scheduler_vars, game_vars>>

\* DeterministicMap::populate_chunk on the buffer.
PopulateChunk(position) ==
    /\ chunk' = populate_chunk(seed, chunk, position)
    /\ last' = [op |-> "populate_chunk", position |-> position, before |-> chunk]
    /\ UNCHANGED <<chunks, reusable_chunk, seed, cached, line, populate, scheduler_vars, game_vars>>

\* DeterministicMap::chunk_for_position; the buffer is replaced by the result.
ChunkForPosition(position) ==
    /\ chunk' = chunk_for_position(seed, position)
    /\ last' = [op |-> "chunk_for_position", position |-> position]
    /\ UNCHANGED <<chunks, reusable_chunk, seed, cached, line, populate, scheduler_vars, game_vars>>

GenNext ==
    \/ \E coord \in GenCoords : BlockAt(coord)
    \/ \E position \in GenPositions : PopulateChunk(position)
    \/ \E position \in GenPositions : ChunkForPosition(position)

SpecGen == GenInit /\ [][GenNext]_vars

\* C8 as stated: block_at is AIR wherever |x| or |y| exceeds HORIZONTAL_LIMIT
\* or |z| exceeds VERTICAL_LIMIT.
BlockAtAirBeyondLimits ==
    (last.op = "block_at"
     /\ (\/ Abs(last.coord.x) > HORIZONTAL_LIMIT
         \/ Abs(last.coord.y) > HORIZONTAL_LIMIT
         \/ Abs(last.coord.z) > VERTICAL_LIMIT))
    => last.result = AIR

\* C8, amended: block_at is AIR wherever |x| or |y| exceeds HORIZONTAL_LIMIT
\* or |z + 1| exceeds VERTICAL_LIMIT (the vertical limit applies to z shifted
\* up by one), for every seed.
BlockAtAirBeyondShiftedLimits ==
    (last.op = "block_at"
     /\ (\/ Abs(last.coord.x) > HORIZONTAL_LIMIT
         \/ Abs(last.coord.y) > HORIZONTAL_LIMIT
         \/ Abs(last.coord.z + 1) > VERTICAL_LIMIT))
    => last.result = AIR

\* A query beyond the horizontal limit at a depth that holds rock inside it.
BlockAtAirBeyondShiftedLimitsWitness ==
    /\ last.op = "block_at"
    /\ last.coord.x > HORIZONTAL_LIMIT
    /\ last.coord.z = -10
    /\ last.result = AIR
    /\ block_at(seed, [last.coord EXCEPT !.x = HORIZONTAL_LIMIT]) # AIR

\* C9: populate_chunk leaves the buffer at the requested position with every
\* voxel equal to block_at of its world coordinate, whatever the buffer held
\* before, and chunk_for_position yields the same chunk.
PopulateChunkMatchesBlockAt ==
    last.op \in {"populate_chunk", "chunk_for_position"} =>
        /\ chunk.position = last.position
        /\ \A local \in LocalCoords :
              chunk_get_block(chunk, local) =
                  Ok(block_at(seed, WorldCoord(
                      last.position.x * CHUNK_WIDTH + local.x,
                      last.position.y * CHUNK_DEPTH + local.y,
                      last.position.z * CHUNK_HEIGHT + local.z)))
        /\ chunk = chunk_for_position(seed, last.position)
        /\ Len(chunk.blocks) = CHUNK_BLOCKS

\* A buffer that held another chunk's rock is refilled as a chunk that mixes
\* AIR and rock: some slot went from non-AIR to AIR.
PopulateChunkMatchesBlockAtWitness ==
    /\ last.op = "populate_chunk"
    /\ last.before.position # chunk.position
    /\ last.before.position \in GenPositions
    /\ \E i \in 1..CHUNK_BLOCKS : last.before.blocks[i] # AIR /\ chunk.blocks[i] = AIR
    /\ \E i \in 1..CHUNK_BLOCKS : chunk.blocks[i] # AIR

-----------------------------------------------------------------------------
\* Decomposition specification: chunk_and_local_for_world_coord is applied
\* to world coordinates on both sides of zero.

DecomposeCoords ==
    {WorldCoord(x, y, z) : x \in (-CHUNK_WIDTH - 1)..CHUNK_WIDTH,
                           y \in (-CHUNK_DEPTH - 1)..CHUNK_DEPTH,
                           z \in (-CHUNK_HEIGHT - 1)..CHUNK_HEIGHT}

DecomposeInit ==
    /\ CacheIdle
    /\ GameIdle
    /\ last = [op |-> "init"]
    /\ CodecIdle

Decompose(coord) ==
    /\ last' = [op |-> "decompose", coord |-> coord,
                result |-> chunk_and_local_for_world_coord(coord)]
    /\ UNCHANGED <<chunks, reusable_chunk, seed, chunk, cached, line, populate, scheduler_vars, game_vars>>

DecomposeNext == \E coord \in DecomposeCoords : Decompose(coord)

SpecDecompose == DecomposeInit /\ [][DecomposeNext]_vars

\* k and l decompose c on an axis of the given chunk size.
Decomposes(c, size, k, l) == 0 <= l /\ l < size /\ k * size + l = c

\* C10: the decomposition of every world coordinate gives, on each axis, a
\* local coordinate within the chunk extent and a chunk coordinate with
\* chunk * size + local = world; no other pair does; (-1, -1, -1) maps to
\* chunk (-1, -1, -1) and the last local coordinate of each axis.
DecompositionIsFloored ==
    last.op = "decompose" =>
        LET c == last.coord
            k == last.result.chunk_pos
            l == last.result.local
        IN /\ Decomposes(c.x, CHUNK_WIDTH, k.x, l.x)
           /\ Decomposes(c.y, CHUNK_DEPTH, k.y, l.y)
           /\ Decomposes(c.z, CHUNK_HEIGHT, k.z, l.z)
           /\ \A k2 \in -3..2 :
                 /\ \A l2 \in 0..(CHUNK_WIDTH - 1) :
                       Decomposes(c.x, CHUNK_WIDTH, k2, l2) => k2 = k.x /\ l2 = l.x
                 /\ \A l2 \in 0..(CHUNK_DEPTH - 1) :
                       Decomposes(c.y, CHUNK_DEPTH, k2, l2) => k2 = k.y /\ l2 = l.y
                 /\ \A l2 \in 0..(CHUNK_HEIGHT - 1) :
                       Decomposes(c.z, CHUNK_HEIGHT, k2, l2) => k2 = k.z /\ l2 = l.z
           /\ c = WorldCoord(-1, -1, -1) =>
                 /\ k = ChunkPosition(-1, -1, -1)
                 /\ l = LocalBlockCoord(CHUNK_WIDTH - 1, CHUNK_DEPTH - 1, CHUNK_HEIGHT - 1)

\* The decomposition of (-1, -1, -1).
DecompositionIsFlooredWitness ==
    /\ last.op = "decompose"
    /\ last.coord = WorldCoord(-1, -1, -1)
    /\ last.result.chunk_pos = ChunkPosition(-1, -1, -1)

-----------------------------------------------------------------------------
\* Line specification: first_solid_on_line is called on caches holding a few
\* solid blocks on level z = 0; each loop iteration is one step.

\* Cells that may hold STONE; every subset is one cache.
LineSolidCandidates ==
    {WorldCoord(0, 0, 0), WorldCoord(1, 0, 0), WorldCoord(0, 1, 0), WorldCoord(1, 1, 0),
     WorldCoord(2, 1, 0), WorldCoord(-1, 0, 0)}

LineStarts == {WorldCoord(0, 0, 0), WorldCoord(-1, -1, 0)}
LineEnds == {WorldCoord(x, y, 0) : x \in -2..3, y \in -2..2}

LineInit ==
    /\ \E solids \in SUBSET LineSolidCandidates :
          /\ chunks = cache_with_solid_blocks(solids)
          /\ last = [op |-> "cache_with_solid_blocks", solids |-> solids]
    /\ reusable_chunk = ChunkNew(ChunkPosition(0, 0, 0), AIR)
    /\ seed = 0
    /\ CodecIdle
    /\ line = LineIdle
    /\ populate = PopulateIdle
    /\ SchedulerIdle
    /\ GameIdle

\* ChunkCache::first_solid_on_line is entered.
LineStart(start, end) ==
    /\ line.pc \in {"idle", "done"}
    /\ line' = line_begin(start, end)
    /\ UNCHANGED <<chunks, reusable_chunk, seed, last, chunk, cached, populate, scheduler_vars, game_vars>>

\* One iteration of its loop.
LineIterate ==
    /\ line.pc = "loop"
    /\ line' = line_iteration(chunks, line)
    /\ UNCHANGED <<chunks, reusable_chunk, seed, last, chunk, cached, populate, scheduler_vars, game_vars>>

LineNext ==
    \/ \E start \in LineStarts, end \in LineEnds : LineStart(start, end)
    \/ LineIterate

SpecLine == LineInit /\ [][LineNext]_vars

\* The cell holds a non-air block.
SolidCell(c) == c \in last.solids

\* C6: a finished query returns the first examined cell that holds a non-air
\* block, and None exactly when no examined cell does; the start cell is never
\* examined or returned, and the result is on the level of start.
FirstSolidIsEarliestExaminedHit ==
    line.pc = "done" =>
        LET ex == line.examined
            hits == {i \in 1..Len(ex) : SolidCell(ex[i])}
        IN /\ (hits = {}) <=> (line.result = None)
           /\ hits # {} => \E i \in hits : /\ \A j \in hits : i <= j
                                           /\ line.result = Some(ex[i])
           /\ line.result # Some(line.start)
           /\ \A i \in 1..Len(ex) : ex[i] # line.start
           /\ line.result # None =>
                 /\ line.result[1].z = line.start.z
                 /\ SolidCell(line.result[1])
                 /\ block_at_world(chunks, line.result[1]) \notin {None, Some(AIR)}

\* A query from a solid start cell that ended on a later solid cell.
FirstSolidIsEarliestExaminedHitWitness ==
    /\ line.pc = "done"
    /\ SolidCell(line.start)
    /\ line.result # None
    /\ Len(line.examined) >= 2

\* C7: a step of both axes with a solid corner cell, taken before any hit,
\* ends the query with one of the two corner cells, never the start cell.
DiagonalStepHitsCorner ==
    [][(/\ line.pc = "loop"
        /\ line'.x0 # line.x0
        /\ line'.y0 # line.y0
        /\ \/ SolidCell(WorldCoord(line.x0, line'.y0, line.z))
           \/ SolidCell(WorldCoord(line'.x0, line.y0, line.z)))
       => /\ line'.pc = "done"
          /\ line'.result \in {Some(WorldCoord(line.x0, line'.y0, line.z)),
                               Some(WorldCoord(line'.x0, line.y0, line.z))}
          /\ line'.result # Some(line.start)]_vars

\* A query that ended on a corner cell of its last step while the cell the
\* step moved to holds no block.
DiagonalStepHitsCornerWitness ==
    /\ line.pc = "done"
    /\ line.sx # 0 /\ line.sy # 0
    /\ line.result \in {Some(WorldCoord(line.x0 - line.sx, line.y0, line.z)),
                        Some(WorldCoord(line.x0, line.y0 - line.sy, line.z))}
    /\ ~SolidCell(WorldCoord(line.x0, line.y0, line.z))

-----------------------------------------------------------------------------
\* Ranges specification: chunk_ranges_for_limits and chunk_count_for_limits
\* are called with limits from 0 up, the configured limits included.

RangeHorizontalLimits == 0..MaxHorizontalLimit \cup {HORIZONTAL_LIMIT}
RangeVerticalLimits == 0..MaxVerticalLimit \cup {VERTICAL_LIMIT}

RangesInit ==
    /\ CacheIdle
    /\ GameIdle
    /\ last = [op |-> "init"]
    /\ CodecIdle

ChunkRangesForLimits(horizontal_limit, vertical_limit) ==
    /\ last' = [op |-> "chunk_ranges_for_limits",
                horizontal_limit |-> horizontal_limit,
                vertical_limit |-> vertical_limit,
                result |-> chunk_ranges_for_limits(horizontal_limit, vertical_limit)]
    /\ UNCHANGED <<chunks, reusable_chunk, seed, chunk, cached, line, populate, scheduler_vars, game_vars>>

ChunkCountForLimits(horizontal_limit, vertical_limit) ==
    /\ last' = [op |-> "chunk_count_for_limits",
                horizontal_limit |-> horizontal_limit,
                vertical_limit |-> vertical_limit,
                result |-> chunk_count_for_limits(horizontal_limit, vertical_limit)]
    /\ UNCHANGED <<chunks, reusable_chunk, seed, chunk, cached, line, populate, scheduler_vars, game_vars>>

RangesNext ==
    \E h \in RangeHorizontalLimits, v \in RangeVerticalLimits :
        \/ ChunkRangesForLimits(h, v)
        \/ ChunkCountForLimits(h, v)

SpecRanges == RangesInit /\ [][RangesNext]_vars

\* The first and the last element of a non-empty Vec.
First(vec) == vec[1]
Last(vec) == vec[Len(vec)]

\* C11 as stated: on each axis the smallest chunk index is the negation of
\* the largest one, for every pair of limits.
ChunkRangesSymmetric ==
    last.op = "chunk_ranges_for_limits" =>
        /\ First(last.result.xs) = -Last(last.result.xs)
        /\ First(last.result.ys) = -Last(last.result.ys)
        /\ First(last.result.zs) = -Last(last.result.zs)

\* The range of one axis is floor(-limit / size) .. floor(limit / size): it
\* is symmetric when size divides limit and reaches one index further down
\* otherwise.
AxisRangeFloored(vec, limit, size) ==
    /\ Len(vec) >= 1
    /\ \A i \in 1..Len(vec) - 1 : vec[i + 1] = vec[i] + 1
    /\ Last(vec) * size <= limit /\ limit < (Last(vec) + 1) * size
    /\ First(vec) * size <= -limit /\ -limit < (First(vec) + 1) * size
    /\ First(vec) = IF limit % size = 0 THEN -Last(vec) ELSE -Last(vec) - 1

\* C11 (amended): on each axis the chunk range runs from floor(-limit / size)
\* to floor(limit / size); the smallest index is the negation of the largest
\* one exactly when the chunk size divides the limit, and one less otherwise.
ChunkRangesFloored ==
    last.op = "chunk_ranges_for_limits" =>
        /\ AxisRangeFloored(last.result.xs, last.horizontal_limit, CHUNK_WIDTH)
        /\ AxisRangeFloored(last.result.ys, last.horizontal_limit, CHUNK_DEPTH)
        /\ AxisRangeFloored(last.result.zs, last.vertical_limit, CHUNK_HEIGHT)

\* The ranges of the configured limits; the vertical limit is no multiple of
\* the chunk height.
ChunkRangesFlooredWitness ==
    /\ last.op = "chunk_ranges_for_limits"
    /\ last.horizontal_limit = HORIZONTAL_LIMIT
    /\ last.vertical_limit = VERTICAL_LIMIT
    /\ VERTICAL_LIMIT % CHUNK_HEIGHT # 0
    /\ First(last.result.zs) = -Last(last.result.zs) - 1

-----------------------------------------------------------------------------
\* Bits specification: bits_required is called with every palette length up
\* to MaxPaletteLen.

PaletteLens == 0..MaxPaletteLen

BitsInit ==
    /\ CacheIdle
    /\ GameIdle
    /\ last = [op |-> "init"]
    /\ CodecIdle

BitsRequired(palette_len) ==
    /\ last' = [op |-> "bits_required", palette_len |-> palette_len,
                result |-> bits_required(palette_len)]
    /\ UNCHANGED <<chunks, reusable_chunk, seed, chunk, cached, line, populate, scheduler_vars, game_vars>>

BitsNext == \E palette_len \in PaletteLens : BitsRequired(palette_len)

SpecBits == BitsInit /\ [][BitsNext]_vars

\* ceil(log2(n)) for n >= 1: the least b with n <= 2^b.
CeilLog2(n) == CHOOSE b \in 0..30 : n <= 2^b /\ \A c \in 0..(b - 1) : n > 2^c

\* max of two numbers
Max(a, b) == IF a >= b THEN a ELSE b

\* C14 as stated: the bits per index are ceil(log2(max(palette_len - 1, 1))),
\* and zero for a palette of 0 or 1 entries.
BitsAreCeilLog2OfLenMinusOne ==
    last.op = "bits_required" =>
        /\ last.result = CeilLog2(Max(last.palette_len - 1, 1))
        /\ last.palette_len <= 1 => last.result = 0

\* C14 (amended): the bits per index are ceil(log2(max(palette_len, 1))),
\* the least width that tells palette_len indices apart, and zero for a
\* palette of 0 or 1 entries.
BitsAreCeilLog2OfLen ==
    last.op = "bits_required" =>
        /\ last.result = CeilLog2(Max(last.palette_len, 1))
        /\ last.palette_len <= 1 => last.result = 0

\* A palette of three entries needs two bits, not ceil(log2(2)) = 1.
BitsAreCeilLog2OfLenWitness ==
    /\ last.op = "bits_required"
    /\ last.palette_len = 3
    /\ last.result = 2

-----------------------------------------------------------------------------
\* Populate specification: populate_within_limits_with_progress is called
\* once on an empty cache, with or without a callback; each pass of the
\* innermost loop body is one step.

\* The pairs of limits tried; a negative limit gives empty ranges.
PopulateLimits ==
    {<<0, 0>>, <<1, 0>>, <<0, 1>>, <<CHUNK_WIDTH, CHUNK_HEIGHT>>, <<-1, 1>>, <<1, -1>>,
     <<LongHorizontalLimit, LongVerticalLimit>>}

PopulateInit ==
    /\ chunks = <<>>
    /\ reusable_chunk = ChunkNew(ChunkPosition(0, 0, 0), AIR)
    /\ seed \in CacheSeeds
    /\ last = [op |-> "init"]
    /\ CodecIdle
    /\ line = LineIdle
    /\ populate = PopulateIdle
    /\ SchedulerIdle
    /\ GameIdle

PopulateBegin(horizontal_limit, vertical_limit, progress) ==
    /\ populate.pc = "idle"
    /\ populate' = populate_begin(horizontal_limit, vertical_limit, progress)
    /\ UNCHANGED <<chunks, reusable_chunk, seed, last, chunk, cached, line, scheduler_vars, game_vars>>

PopulateIterate ==
    /\ populate.pc = "loop"
    /\ LET cache == populate_chunk_at([chunks |-> chunks, reusable_chunk |-> reusable_chunk],
                                      seed, nth_position(populate.r, populate.loaded))
       IN /\ chunks' = cache.chunks
          /\ reusable_chunk' = cache.reusable_chunk
    /\ populate' = populate_iteration(populate)
    /\ UNCHANGED <<seed, last, chunk, cached, line, scheduler_vars, game_vars>>

PopulateNext ==
    \/ \E limits \in PopulateLimits, progress \in BOOLEAN :
          PopulateBegin(limits[1], limits[2], progress)
    \/ PopulateIterate

SpecPopulate == PopulateInit /\ [][PopulateNext]_vars

\* The chunk indices of one axis whose covered coordinates meet [-limit, limit].
IntersectingIndices(limit, size) ==
    {k \in (-limit - 1)..(limit + 1) :
        \E c \in (k * size)..(k * size + size - 1) : -limit <= c /\ c <= limit}

\* The chunk positions whose covered box meets [-h,h] x [-h,h] x [-v,v].
IntersectingPositions(h, v) ==
    {ChunkPosition(x, y, z) : x \in IntersectingIndices(h, CHUNK_WIDTH),
                              y \in IntersectingIndices(h, CHUNK_DEPTH),
                              z \in IntersectingIndices(v, CHUNK_HEIGHT)}

\* C12: a finished populate_within_limits on an empty cache leaves present
\* exactly the chunk positions whose box meets the limits, has populated each
\* of them once, and chunk_count_for_limits is their number.
PopulateCoversLimitsOnce ==
    populate.pc = "done" =>
        LET want == IntersectingPositions(populate.horizontal_limit, populate.vertical_limit)
            visited == populate.visited
        IN /\ DOMAIN chunks = want
           /\ {visited[i] : i \in 1..Len(visited)} = want
           /\ \A i, j \in 1..Len(visited) : visited[i] = visited[j] => i = j
           /\ chunk_count_for_limits(populate.horizontal_limit, populate.vertical_limit)
                 = Cardinality(want)

\* A finished call whose limits reach chunks on both sides of zero.
PopulateCoversLimitsOnceWitness ==
    /\ populate.pc = "done"
    /\ populate.horizontal_limit = CHUNK_WIDTH
    /\ ChunkPosition(-1, -1, -1) \in DOMAIN chunks
    /\ ChunkPosition(1, 1, 1) \in DOMAIN chunks

\* The invocations of the callback come at multiples of NOTIFY_EVERY or at
\* the total, with strictly increasing loaded counts.
CallsBounded(p) ==
    /\ \A i \in 1..Len(p.calls) :
          /\ p.calls[i].loaded % NOTIFY_EVERY = 0 \/ p.calls[i].loaded = p.total_chunks
          /\ p.calls[i].total = p.total_chunks
    /\ \A i \in 1..Len(p.calls) - 1 : p.calls[i].loaded < p.calls[i + 1].loaded

\* Exactly one invocation, the last one, reports loaded = total.
CallsCompleteOnce(p) ==
    /\ Len(p.calls) >= 1
    /\ \A i \in 1..Len(p.calls) : (p.calls[i].loaded = p.total_chunks) <=> (i = Len(p.calls))

\* C13 as stated: for every pair of limits the callback is invoked only at
\* a multiple of 1000 or at the total, the loaded counts strictly increase,
\* and exactly one invocation, the last one, reports completion.
ProgressNotifiesBoundedAndOnce ==
    (populate.pc # "idle" /\ populate.progress) =>
        /\ CallsBounded(populate)
        /\ populate.pc = "done" => CallsCompleteOnce(populate)

\* C13 (amended): the same for every pair of limits whose ranges hold at
\* least one chunk; with empty ranges the callback is never invoked.
ProgressNotifiesBoundedAndOnceIfAny ==
    (populate.pc # "idle" /\ populate.progress) =>
        /\ CallsBounded(populate)
        /\ (populate.pc = "done" /\ populate.total_chunks > 0) => CallsCompleteOnce(populate)
        /\ populate.total_chunks = 0 => populate.calls = <<>>

\* A finished call that notified at NOTIFY_EVERY chunks and at the total.
ProgressNotifiesBoundedAndOnceIfAnyWitness ==
    /\ populate.pc = "done"
    /\ populate.progress
    /\ populate.total_chunks > NOTIFY_EVERY
    /\ Len(populate.calls) = 2
    /\ populate.calls[1].loaded = NOTIFY_EVERY

-----------------------------------------------------------------------------
\* Scheduler specification: a GameState built on an empty cache or on one
\* that holds chunk (0, 0, 0); the view level is shifted and the queue is
\* drained in any order.

\* The GameState held in the variables.
Game ==
    [chunks |-> chunks, reusable_chunk |-> reusable_chunk, view_z |-> view_z,
     queue |-> chunk_cache_queue, queued |-> chunk_cache_queued,
     skip |-> skip_chunk_cache_processing,
     rendered_level |-> rendered_level, rendered_level_dirty |-> rendered_level_dirty]

\* The variables take the fields of g.
GameBecomes(g) ==
    /\ chunks' = g.chunks
    /\ reusable_chunk' = g.reusable_chunk
    /\ view_z' = g.view_z
    /\ chunk_cache_queue' = g.queue
    /\ chunk_cache_queued' = g.queued
    /\ skip_chunk_cache_processing' = g.skip
    /\ rendered_level' = g.rendered_level
    /\ rendered_level_dirty' = g.rendered_level_dirty

\* The caches handed to GameState::new_with_cache.
SchedulerCaches ==
    {[chunks |-> <<>>, reusable_chunk |-> ChunkNew(ChunkPosition(0, 0, 0), AIR)],
     populate_chunk_at([chunks |-> <<>>,
                        reusable_chunk |-> ChunkNew(ChunkPosition(0, 0, 0), AIR)],
                       42, ChunkPosition(0, 0, 0))}

ViewDeltas == {-MaxViewZ, MaxViewZ}

\* GameState::build: the fields are set and the queue is primed.
SchedulerInit ==
    /\ seed = 42
    /\ \E cache \in SchedulerCaches :
          LET g == prime_chunk_cache_queue(
                       [chunks |-> cache.chunks, reusable_chunk |-> cache.reusable_chunk,
                        view_z |-> DEFAULT_VIEW_Z, queue |-> <<>>, queued |-> {},
                        skip |-> FALSE, rendered_level |-> None,
                        rendered_level_dirty |-> TRUE])
          IN /\ chunks = g.chunks
             /\ reusable_chunk = g.reusable_chunk
             /\ view_z = g.view_z
             /\ chunk_cache_queue = g.queue
             /\ chunk_cache_queued = g.queued
             /\ skip_chunk_cache_processing = g.skip
    /\ last = [op |-> "build"]
    /\ CodecIdle
    /\ line = LineIdle
    /\ populate = PopulateIdle
    /\ GameIdle

\* run: a pending z delta is applied by GameState::shift_view_z.
ShiftViewZ(delta) ==
    /\ view_z + delta \in -MaxViewZ..MaxViewZ
    /\ GameBecomes(shift_view_z(Game, delta))
    /\ last' = [op |-> "shift_view_z", delta |-> delta]
    /\ UNCHANGED <<seed, chunk, cached, line, populate, tool_vars>>

\* run: GameState::process_chunk_cache_queue
ProcessChunkCacheQueue ==
    /\ LET r == process_chunk_cache_queue(Game, seed)
       IN /\ GameBecomes(r.g)
          /\ last' = [op |-> "process_chunk_cache_queue", skipped |-> r.skipped,
                      popped |-> r.popped, generated |-> r.generated, timed |-> r.timed]
    /\ UNCHANGED <<seed, chunk, cached, line, populate, tool_vars>>

SchedulerNext ==
    \/ \E delta \in ViewDeltas : ShiftViewZ(delta)
    \/ ProcessChunkCacheQueue

SpecScheduler == SchedulerInit /\ [][SchedulerNext]_vars

\* The positions in a queue, and the positions of the world.
QueueSet(queue) == {queue[i] : i \in 1..Len(queue)}
WorldPositions ==
    {ChunkPosition(world_chunk_xs[i], world_chunk_ys[j], world_chunk_zs[k]) :
        i \in DOMAIN world_chunk_xs, j \in DOMAIN world_chunk_ys, k \in DOMAIN world_chunk_zs}

\* The chunk plane of a world level.
PlaneOf(level) == div_floor(level, CHUNK_HEIGHT)

\* A step that changed the focus, and a step of the drain operation.
FocusChange == view_z' # view_z
DrainStep == last'.op = "process_chunk_cache_queue" /\ vars' # vars

\* No position twice in the queue, and the positions of one plane adjacent.
QueueListsPlanesOnce(queue) ==
    /\ \A i, j \in 1..Len(queue) : queue[i] = queue[j] => i = j
    /\ \A i, j, k \in 1..Len(queue) :
          (i < j /\ j < k /\ queue[i].z = queue[k].z) => queue[j].z = queue[i].z

\* The place of a plane in the order of the claim for focus z: 0 for the
\* planes of z - 1 and z, the least distance of a level of the plane within
\* the preload radius, and PRELOAD_Z_RADIUS + 1 for the remaining planes.
DistanceRank(plane, z) ==
    IF plane \in {PlaneOf(z - 1), PlaneOf(z)} THEN 0
    ELSE LET ds == {d \in 1..PRELOAD_Z_RADIUS : plane \in {PlaneOf(z - d), PlaneOf(z + d)}}
         IN IF ds = {} THEN PRELOAD_Z_RADIUS + 1
            ELSE CHOOSE d \in ds : \A e \in ds : d <= e

\* C15: after a focus change to level z the queue lists whole chunk planes,
\* none twice and none outside the world: the planes of z - 1 and z first,
\* then the planes within the preload radius by increasing distance from z,
\* then the remaining world planes.
QueueOrderedByDistance ==
    [][FocusChange =>
        LET queue == chunk_cache_queue'
            z == view_z'
        IN /\ QueueListsPlanesOnce(queue)
           /\ QueueSet(queue) = {p \in WorldPositions : p \notin DOMAIN chunks'}
           /\ \A i, j \in 1..Len(queue) :
                 i < j => DistanceRank(queue[i].z, z) <= DistanceRank(queue[j].z, z)
           /\ \A i, j \in 1..Len(queue) :
                 (queue[i].z = PlaneOf(z) /\ queue[j].z = PlaneOf(z - 1)
                  /\ PlaneOf(z) # PlaneOf(z - 1)) => j < i]_vars

\* C16: a focus change sets the skip flag; a drain invocation that finds it
\* set generates nothing, keeps queue and cache and clears it; a drain
\* invocation that finds it clear is not skipped and leaves it clear.
SkipFlagIsOneShot ==
    [][/\ FocusChange => skip_chunk_cache_processing'
       /\ (DrainStep /\ skip_chunk_cache_processing) =>
             /\ last'.skipped /\ last'.generated = <<>>
             /\ chunk_cache_queue' = chunk_cache_queue
             /\ chunks' = chunks
             /\ ~skip_chunk_cache_processing'
       /\ (DrainStep /\ ~skip_chunk_cache_processing) =>
             /\ ~last'.skipped
             /\ chunk_cache_queue # <<>> => last'.generated # <<>>
             /\ ~skip_chunk_cache_processing']_vars

\* A drain that generated chunks right after a skipped drain.
SkipFlagIsOneShotWitness ==
    /\ last.op = "process_chunk_cache_queue"
    /\ ~last.skipped
    /\ last.generated # <<>>
    /\ view_z # DEFAULT_VIEW_Z
    /\ ~skip_chunk_cache_processing

\* C17: a drain invocation removes at most CHUNK_CACHE_CHUNKS_PER_FRAME
\* positions from the front of the queue and generates exactly the removed
\* positions that were not cached; the cached chunks are not regenerated.
DrainRemovesAtMostBatch ==
    [][DrainStep =>
        LET popped == last'.popped
        IN /\ Len(popped) <= CHUNK_CACHE_CHUNKS_PER_FRAME
           /\ Len(chunk_cache_queue') = Len(chunk_cache_queue) - Len(popped)
           /\ QueueSet(last'.generated) = QueueSet(popped) \ DOMAIN chunks
           /\ Len(last'.generated) = Cardinality(QueueSet(popped) \ DOMAIN chunks)
           /\ DOMAIN chunks' = DOMAIN chunks \cup QueueSet(last'.generated)
           /\ \A p \in DOMAIN chunks : chunks'[p] = chunks[p]]_vars

\* A drain that took a full batch and left positions queued.
DrainRemovesAtMostBatchWitness ==
    /\ last.op = "process_chunk_cache_queue"
    /\ Len(last.popped) = CHUNK_CACHE_CHUNKS_PER_FRAME
    /\ Len(last.generated) = CHUNK_CACHE_CHUNKS_PER_FRAME
    /\ chunk_cache_queue # <<>>

\* C18: a drain invocation generates the chunks in the order of the queue,
\* from its front, and the entries that remain keep their order: whenever p
\* precedes q in the queue, q is not generated unless p is generated before
\* it or in the cache already.
DrainFollowsQueueOrder ==
    [][(DrainStep /\ ~last'.skipped) =>
        LET n == Len(last'.popped)
            generated == last'.generated
        IN /\ last'.popped = SubSeq(chunk_cache_queue, 1, n)
           /\ chunk_cache_queue' = SubSeq(chunk_cache_queue, n + 1, Len(chunk_cache_queue))
           /\ \A i, j \in 1..Len(chunk_cache_queue) :
                 (i < j /\ chunk_cache_queue[j] \in QueueSet(generated)) =>
                     \/ chunk_cache_queue[i] \in DOMAIN chunks
                     \/ \E a, b \in 1..Len(generated) :
                           /\ a < b
                           /\ generated[a] = chunk_cache_queue[i]
                           /\ generated[b] = chunk_cache_queue[j]]_vars

\* A second drain since the rebuild that went on where the first one stopped.
DrainFollowsQueueOrderWitness ==
    /\ last.op = "process_chunk_cache_queue"
    /\ Len(last.generated) >= 2
    /\ chunk_cache_queue # <<>>
    /\ Len(chunk_cache_queue) + 2 * CHUNK_CACHE_CHUNKS_PER_FRAME
          <= Cardinality(WorldPositions)

\* C19 as stated: every drain invocation made while the queue holds a
\* position that is not cached generates at least one chunk.
DrainAlwaysProgresses ==
    [][(last'.op = "process_chunk_cache_queue"
        /\ \E p \in QueueSet(chunk_cache_queue) : p \notin DOMAIN chunks)
       => last'.generated # <<>>]_vars

\* C19 (amended): a drain invocation made while the skip flag is clear and
\* the queue holds a position that is not cached generates at least one
\* chunk; one made while the flag is set generates none and clears the flag.
DrainProgressesUnlessSkipped ==
    [][(last'.op = "process_chunk_cache_queue"
        /\ \E p \in QueueSet(chunk_cache_queue) : p \notin DOMAIN chunks)
       => IF skip_chunk_cache_processing
          THEN /\ last'.generated = <<>>
               /\ ~skip_chunk_cache_processing'
               /\ chunk_cache_queue' = chunk_cache_queue
          ELSE /\ last'.generated # <<>>
               /\ DOMAIN chunks' # DOMAIN chunks]_vars

\* A drain after focus changes that generated chunks and left work queued.
DrainProgressesUnlessSkippedWitness ==
    /\ last.op = "process_chunk_cache_queue"
    /\ last.generated # <<>>
    /\ view_z = MaxViewZ
    /\ \E p \in QueueSet(chunk_cache_queue) : p \notin DOMAIN chunks

\* The planes of the levels listed for each focus z.
ListedPlanesOf ==
    [z \in -MaxViewZ..MaxViewZ |->
        LET levels == prioritized_levels(z)
        IN {PlaneOf(levels[i]) : i \in DOMAIN levels}]
ListedPlanes(z) == ListedPlanesOf[z]

\* C20 as stated: a position queued before the focus change whose level is
\* not among the newly listed levels is absent from the rebuilt queue.
RebuildDropsUnlistedPositions ==
    [][FocusChange =>
        \A p \in QueueSet(chunk_cache_queue) :
            p.z \notin ListedPlanes(view_z') => p \notin QueueSet(chunk_cache_queue')]_vars

\* C20 (amended): a focus change rebuilds the queue to hold every world
\* position that is not cached, each once: a position queued before stays
\* queued, and the positions whose plane is not among the newly listed
\* levels stand behind all positions of the listed planes.
RebuildKeepsUnlistedPositionsBehind ==
    [][FocusChange =>
        LET queue == chunk_cache_queue'
            listed == ListedPlanes(view_z')
        IN /\ QueueSet(queue) = {p \in WorldPositions : p \notin DOMAIN chunks}
           /\ QueueSet(chunk_cache_queue) \subseteq QueueSet(queue)
           /\ chunk_cache_queued' = QueueSet(queue)
           /\ \A i, j \in 1..Len(queue) : queue[i] = queue[j] => i = j
           /\ \A i, j \in 1..Len(queue) :
                 (queue[i].z \in listed /\ queue[j].z \notin listed) => i < j
           /\ chunks' = chunks]_vars

\* A rebuilt queue, not yet drained, that ends with a position of a plane
\* outside the listed levels.
RebuildKeepsUnlistedPositionsBehindWitness ==
    /\ last.op = "shift_view_z"
    /\ skip_chunk_cache_processing
    /\ chunk_cache_queue # <<>>
    /\ chunk_cache_queue[Len(chunk_cache_queue)].z \notin ListedPlanes(view_z)
    /\ chunk_cache_queue[1].z \in ListedPlanes(view_z)
    /\ DOMAIN chunks # {}

-----------------------------------------------------------------------------
\* C21: in every state after construction, focus changes and drains, the
\* work queue holds no position twice, the membership set is exactly the set
\* of the positions in the queue, and no queued position is in the cache
\* (the cache only grows by the drain, which generates what it has popped,
\* so a queued position that is not cached was not cached when enqueued).
QueueMatchesSetAndHoldsNoCachedPosition ==
    /\ \A i, j \in 1..Len(chunk_cache_queue) :
          chunk_cache_queue[i] = chunk_cache_queue[j] => i = j
    /\ chunk_cache_queued = QueueSet(chunk_cache_queue)
    /\ QueueSet(chunk_cache_queue) \cap DOMAIN chunks = {}

\* A queue rebuilt by a focus change while part of the world was cached
\* and part was not.
QueueMatchesSetAndHoldsNoCachedPositionWitness ==
    /\ last.op = "shift_view_z"
    /\ Len(chunk_cache_queue) > 1
    /\ Cardinality(DOMAIN chunks) > 1
    /\ \E p \in DOMAIN chunks : p.z \in ListedPlanes(view_z)

-----------------------------------------------------------------------------
\* Load specification: block saves are taken from and applied to a Chunk
\* and to the chunks registered in a World, whose load callback hands back
\* an error, nothing, or an array of any length.

\* ChunkBlocks::new
chunkblocks_new(position, blocks) ==
    IF Len(blocks) # CHUNK_BLOCKS THEN Err(InvalidBlockCount(Len(blocks)))
    ELSE Ok([position |-> position, blocks |-> blocks])

\* Chunk::to_block_save
to_block_save(c) == [position |-> c.position, blocks |-> c.blocks]

\* World::load_chunk_blocks on World.chunks, with the value the load_blocks
\* callback returned for the position: Err(e), Ok(None) or Ok(Some(blocks)).
load_chunk_blocks(cs, position, loaded) ==
    IF ~loaded.ok THEN [result |-> Err(loaded.err), chunks |-> cs]
    ELSE IF loaded.val = None THEN [result |-> Ok(FALSE), chunks |-> cs]
    ELSE IF loaded.val[1] = <<>> THEN [result |-> Ok(FALSE), chunks |-> cs]
    ELSE IF position \notin DOMAIN cs
         THEN [result |-> Err(<<"StorageError", "Chunk not registered">>), chunks |-> cs]
    ELSE LET data == chunkblocks_new(position, loaded.val[1])
         IN IF ~data.ok
            THEN [result |-> Err(<<"StorageError", "Chunk error while loading", data.err>>),
                  chunks |-> cs]
            ELSE LET r == apply_block_save(cs[position], data.val)
                 IN IF ~r.result.ok
                    THEN [result |-> Err(<<"StorageError", "Failed to apply chunk",
                                           r.result.err>>),
                          chunks |-> cs]
                    ELSE [result |-> Ok(TRUE),
                          chunks |-> [cs EXCEPT ![position] = r.chunk]]

\* The block arrays handed to the load paths: the saves of the chunks at
\* hand, and arrays of no, one missing, the right number of and one extra
\* block.
LoadPayloads ==
    {to_block_save(chunk).blocks}
    \cup {to_block_save(world_chunks[p]).blocks : p \in DOMAIN world_chunks}
    \cup {[i \in 1..n |-> IF i = n THEN b ELSE AIR] :
             n \in {0, CHUNK_BLOCKS - 1, CHUNK_BLOCKS, CHUNK_BLOCKS + 1},
             b \in {DIRT, CORE}}

\* A Chunk::new and a World with World::register_chunk called for (0, 0, 0).
WorldInit ==
    /\ CacheIdle
    /\ cached = NoCached
    /\ rendered_level = None
    /\ rendered_level_dirty = TRUE
    /\ slots = empty_inventory
    /\ selection = None
    /\ \E b \in {AIR, STONE} :
          /\ chunk = ChunkNew(ChunkPosition(1, 2, 3), b)
          /\ world_chunks = (ChunkPosition(0, 0, 0) :> ChunkNew(ChunkPosition(0, 0, 0), AIR))
    /\ last = [op |-> "init"]

\* ChunkBlocks::new
ChunkBlocksNew(position, blocks) ==
    /\ last' = [op |-> "chunkblocks_new", position |-> position, blocks |-> blocks,
                result |-> chunkblocks_new(position, blocks)]
    /\ UNCHANGED <<chunks, reusable_chunk, seed, chunk, cached, line, populate,
                   scheduler_vars, game_vars>>

\* Chunk::apply_block_save on the chunk.
ApplyBlockSave(blocks) ==
    /\ LET r == apply_block_save(chunk, [position |-> chunk.position, blocks |-> blocks])
       IN /\ chunk' = r.chunk
          /\ last' = [op |-> "apply_block_save", position |-> chunk.position,
                      blocks |-> blocks, result |-> r.result]
    /\ UNCHANGED <<chunks, reusable_chunk, seed, cached, line, populate, scheduler_vars,
                   rendered_level, rendered_level_dirty, world_chunks, slots, selection>>

\* World::load_chunk_blocks with the callback's answer.
LoadChunkBlocks(position, loaded) ==
    /\ LET r == load_chunk_blocks(world_chunks, position, loaded)
       IN /\ world_chunks' = r.chunks
          /\ last' = [op |-> "load_chunk_blocks", position |-> position,
                      loaded |-> loaded, result |-> r.result]
    /\ UNCHANGED <<chunks, reusable_chunk, seed, chunk, cached, line, populate,
                   scheduler_vars, rendered_level, rendered_level_dirty, slots, selection>>

WorldNext ==
    \/ \E blocks \in LoadPayloads : ChunkBlocksNew(ChunkPosition(0, 0, 0), blocks)
    \/ \E blocks \in LoadPayloads : ApplyBlockSave(blocks)
    \/ \E position \in {ChunkPosition(0, 0, 0), ChunkPosition(0, 0, 1)},
          loaded \in {Err(<<"StorageError", "failed to load">>), Ok(None)}
                     \cup {Ok(Some(blocks)) : blocks \in LoadPayloads} :
          LoadChunkBlocks(position, loaded)

SpecWorld == WorldInit /\ [][WorldNext]_vars

\* The array an operation of the load specification was handed, if any.
HandedBlocks(l) ==
    IF l.op \in {"chunkblocks_new", "apply_block_save"} THEN Some(l.blocks)
    ELSE IF l.op = "load_chunk_blocks" /\ l.loaded.ok THEN l.loaded.val
    ELSE None

\* C22: every load path handed an array whose length is not
\* CHUNK_BLOCKS answers with an error (InvalidBlockCount(n) at the chunk
\* level) and leaves the chunks as they were; an array of the right length
\* is accepted, and the target chunk then holds exactly its blocks.
LoadPathsRejectWrongLength ==
    [][\A blocks \in {b \in {HandedBlocks(last')[i] : i \in DOMAIN HandedBlocks(last')} :
                        vars' # vars} :
          LET l == last'
          IN IF Len(blocks) # CHUNK_BLOCKS
             THEN /\ ~l.result.ok
                  /\ l.op # "load_chunk_blocks" => l.result.err = InvalidBlockCount(Len(blocks))
                  /\ chunk' = chunk
                  /\ world_chunks' = world_chunks
             ELSE /\ l.op = "chunkblocks_new" => l.result = Ok([position |-> l.position,
                                                               blocks |-> blocks])
                  /\ l.op = "apply_block_save" =>
                        l.result.ok /\ chunk'.blocks = blocks /\ chunk'.position = chunk.position
                  /\ (l.op = "load_chunk_blocks" /\ l.position \in DOMAIN world_chunks) =>
                        /\ l.result = Ok(TRUE)
                        /\ world_chunks'[l.position].blocks = blocks
                        /\ to_block_save(world_chunks'[l.position]).blocks = blocks]_vars

\* The same with the one exception of the code: World::load_chunk_blocks
\* takes an empty array for "nothing stored" and answers Ok(false).
LoadPathsRejectWrongLengthButEmpty ==
    [][\A blocks \in {b \in {HandedBlocks(last')[i] : i \in DOMAIN HandedBlocks(last')} :
                        vars' # vars} :
          LET l == last'
          IN IF Len(blocks) # CHUNK_BLOCKS
             THEN /\ IF l.op = "load_chunk_blocks" /\ blocks = <<>>
                     THEN l.result = Ok(FALSE)
                     ELSE ~l.result.ok
                  /\ l.op # "load_chunk_blocks" => l.result.err = InvalidBlockCount(Len(blocks))
                  /\ chunk' = chunk
                  /\ world_chunks' = world_chunks
             ELSE /\ l.op = "apply_block_save" => l.result.ok /\ chunk'.blocks = blocks
                  /\ (l.op = "load_chunk_blocks" /\ l.position \in DOMAIN world_chunks) =>
                        l.result = Ok(TRUE) /\ world_chunks'[l.position].blocks = blocks]_vars

-----------------------------------------------------------------------------
\* run calls GameState::process_chunk_cache_queue once in every frame, so
\* the drain is weakly fair. The fairness is written out with the enabling
\* condition of the drain as a state predicate: a drain changes the game
\* state exactly when the skip flag is set or the queue is not empty.
DrainCanAct == skip_chunk_cache_processing \/ chunk_cache_queue # <<>>
DrainFair == []<>(~DrainCanAct) \/ []<><<DrainStep>>_vars

SpecSchedulerFair == SchedulerInit /\ [][SchedulerNext]_vars /\ DrainFair

\* C23: if from some point on the focus level no longer changes, the
\* repeated drains reach a point from which the queue is empty and every
\* chunk position of the world is in the cache.
DrainsEventuallyCacheTheWorld ==
    <>[](last.op = "process_chunk_cache_queue") =>
        <>[](chunk_cache_queue = <<>> /\ WorldPositions \subseteq DOMAIN chunks)

\* The queue has run empty at a focus level other than the initial one and
\* the whole world is cached.
DrainsEventuallyCacheTheWorldWitness ==
    /\ view_z # DEFAULT_VIEW_Z
    /\ last.op = "process_chunk_cache_queue"
    /\ chunk_cache_queue = <<>>
    /\ WorldPositions \subseteq DOMAIN chunks
    /\ WorldPositions # {}

-----------------------------------------------------------------------------
\* C24: the changed flag of a cached chunk tells whether a set_block has
\* succeeded in the chunk since it was last populated. Step by step:
\* populate_chunk_at and populate_within_limits leave the chunks they
\* (re)populate unchanged-flagged with the generated content and touch no
\* other flag; a successful set_block sets the flag of the chunk it wrote
\* to, whatever value it wrote, and touches no other flag; a failed
\* set_block touches none. So a flag once set stays set until the chunk is
\* populated again.
ChangedFlagTracksEdits ==
    [][LET l == last'
           Populated ==
               IF l.op = "populate_chunk_at" THEN {l.position}
               ELSE IF l.op = "populate_within_limits"
                    THEN IntersectingPositions(l.horizontal_limit, l.vertical_limit)
               ELSE {}
           Written ==
               IF l.op = "set_block" /\ l.result.ok
               THEN {chunk_and_local_for_world_coord(l.coord).chunk_pos}
               ELSE {}
       IN vars' # vars =>
          /\ DOMAIN chunks' = DOMAIN chunks \cup Populated
          /\ \A p \in Populated :
                chunks'[p] = from_chunk(chunk_for_position(seed, p)) /\ ~chunks'[p].changed
          /\ \A p \in Written : p \in DOMAIN chunks /\ chunks'[p].changed
          /\ \A p \in DOMAIN chunks \ (Populated \cup Written) :
                chunks'[p].changed = chunks[p].changed]_vars

\* A chunk flagged as changed whose content is the generated one again:
\* the latest set_block wrote the value that was stored.
ChangedFlagTracksEditsWitness ==
    /\ last.op = "set_block"
    /\ last.result.ok
    /\ LET p == chunk_and_local_for_world_coord(last.coord).chunk_pos
       IN /\ chunks[p].changed
          /\ [chunks[p] EXCEPT !.changed = FALSE] = from_chunk(chunk_for_position(seed, p))
          /\ \E q \in DOMAIN chunks : ~chunks[q].changed

-----------------------------------------------------------------------------
\* C25: bits_required gives 0, 0, 1, 2, 2 for the lengths 0 .. 4, and the
\* bits_per_index of every compressed chunk is 0 for a palette of one entry
\* and otherwise the least b with 2^b >= palette length; so every palette
\* index is below 2^bits_per_index and passes the packing mask unaltered,
\* and every voxel's packed index is the index of its block. With zero
\* bits the packed array is empty and every voxel decodes to the single
\* palette entry.
PaletteIndexFitsBits ==
    /\ \A n \in 0..4 : bits_required(n) = <<0, 0, 1, 2, 2>>[n + 1]
    /\ cached # NoCached =>
          LET len == Len(cached.palette)
              bits == cached.bits_per_index
          IN /\ len >= 1
             /\ bits = IF len <= 1 THEN 0 ELSE CeilLog2(len)
             /\ \A index \in 0..(len - 1) :
                   /\ index < 2^bits
                   /\ BitAnd(U64FromUsize(index), LowMask(bits)) = U64FromUsize(index)
             /\ bits > 0 =>
                   \A n \in 0..(CHUNK_BLOCKS - 1) :
                       LET index == U64ToUsize(unpack_index(cached.blocks, n, bits))
                       IN index < len /\ At(cached.palette, index) = At(chunk.blocks, n)
             /\ bits = 0 =>
                   /\ cached.blocks = <<>>
                   /\ \A coord \in LocalCoords :
                         cached_get_block(cached, coord) = Ok(At(cached.palette, 0))

\* A compressed chunk whose palette length is not a power of two, with the
\* last palette index in use.
PaletteIndexFitsBitsWitness ==
    /\ cached # NoCached
    /\ Len(cached.palette) = 3
    /\ cached.bits_per_index = 2
    /\ \E n \in 0..(CHUNK_BLOCKS - 1) :
          U64ToUsize(unpack_index(cached.blocks, n, cached.bits_per_index)) = 2

-----------------------------------------------------------------------------
\* The distance |x1 - x0| + |y1 - y0| of the current cell from the end.
DistanceToEnd(l) == Abs(l.end.x - l.x0) + Abs(l.end.y - l.y0)

\* C26: the traversal terminates: every loop iteration either returns or
\* moves the current cell strictly closer to the end, whose distance is a
\* natural number. A traversal that returns None stands on the end cell
\* and, when the end is not the start, has examined it and found no solid
\* block there.
LineTraversalTerminates ==
    [][line.pc = "loop" =>
          /\ line'.pc \in {"loop", "done"}
          /\ line'.pc = "loop" => DistanceToEnd(line') < DistanceToEnd(line)
          /\ <<line'.x0, line'.y0>> # <<line.x0, line.y0>> =>
                /\ DistanceToEnd(line') < DistanceToEnd(line)
                /\ DistanceToEnd(line') >= 0
          /\ (line'.pc = "done" /\ line'.result = None) =>
                /\ WorldCoord(line'.x0, line'.y0, line'.z) = line.end
                /\ line.end # line.start =>
                      /\ \E i \in DOMAIN line'.examined : line'.examined[i] = line.end
                      /\ ~is_solid(block_at_world(chunks, line.end))]_vars

\* A traversal of several cells, past solid blocks beside the line, that
\* returned None on its end cell.
LineTraversalTerminatesWitness ==
    /\ line.pc = "done"
    /\ line.result = None
    /\ line.end # line.start
    /\ Len(line.examined) >= 4
    /\ line.examined[Len(line.examined)] = line.end
    /\ last.solids # {}
    /\ line.dx # line.dy /\ line.dx > 0 /\ line.dy > 0

-----------------------------------------------------------------------------
\* inventory.rs and tool.rs: an InventorySlots array is a function on
\* 0 .. INVENTORY_SLOTS - 1 of slots [block, count], block an Option.

\* ToolController::new: max_distance
max_distance == 1

\* inventory::slot_block
slot_block(ss, slot_index) ==
    IF slot_index \notin DOMAIN ss THEN None
    ELSE IF ss[slot_index].block = None THEN None
    ELSE IF ss[slot_index].count > 0
         THEN Some([block |-> ss[slot_index].block[1], count |-> ss[slot_index].count])
    ELSE None

\* inventory::remove_block_from_slot: the block returned and the slots
\* afterwards.
remove_block_from_slot(ss, slot_index) ==
    IF slot_index \notin DOMAIN ss THEN [result |-> None, slots |-> ss]
    ELSE IF ss[slot_index].count = 0
         THEN [result |-> None, slots |-> [ss EXCEPT ![slot_index].block = None]]
    ELSE LET count == ss[slot_index].count - 1
         IN [result |-> ss[slot_index].block,
             slots |-> [ss EXCEPT ![slot_index].count = count,
                                  ![slot_index].block =
                                      IF count = 0 THEN None ELSE ss[slot_index].block]]

\* inventory::inventory_unit_count
inventory_unit_count(ss) ==
    LET RECURSIVE sum(_)
        sum(i) == IF i \notin DOMAIN ss THEN 0 ELSE ss[i].count + sum(i + 1)
    IN sum(0)

\* add_block_to_slots without the test of MAX_INVENTORY_UNITS.
add_block_to_slots_unlimited(ss, block) ==
    LET holding == {i \in DOMAIN ss : ss[i].block = Some(block)}
        free == {i \in DOMAIN ss : ss[i].block = None}
        first(set) == CHOOSE i \in set : \A j \in set : i <= j
    IN IF holding # {}
       THEN [result |-> TRUE,
             slots |-> [ss EXCEPT ![first(holding)].count = @ + 1]]
       ELSE IF free # {}
       THEN [result |-> TRUE,
             slots |-> [ss EXCEPT ![first(free)] = [block |-> Some(block), count |-> 1]]]
       ELSE [result |-> FALSE, slots |-> ss]

\* inventory::add_block_to_slots: the value returned and the slots
\* afterwards.
add_block_to_slots(ss, block) ==
    LET holding == {i \in DOMAIN ss : ss[i].block = Some(block)}
        free == {i \in DOMAIN ss : ss[i].block = None}
        first(set) == CHOOSE i \in set : \A j \in set : i <= j
    IN IF inventory_unit_count(ss) >= MAX_INVENTORY_UNITS
       THEN [result |-> FALSE, slots |-> ss]
       ELSE IF holding # {}
       THEN [result |-> TRUE,
             slots |-> [ss EXCEPT ![first(holding)].count = @ + 1]]
       ELSE IF free # {}
       THEN [result |-> TRUE,
             slots |-> [ss EXCEPT ![first(free)] = [block |-> Some(block), count |-> 1]]]
       ELSE [result |-> FALSE, slots |-> ss]

\* ToolController::select_from_inventory: the new selection.
select_from_inventory(ss, slot_index) ==
    LET found == slot_block(ss, slot_index)
    IN IF found = None THEN None
       ELSE Some([block |-> found[1].block, slot_index |-> slot_index,
                  remaining |-> found[1].count])

\* ToolController::refresh_from_inventory: the selection afterwards.
refresh_from_inventory(sel, ss) ==
    IF sel = None THEN None
    ELSE LET found == slot_block(ss, sel[1].slot_index)
         IN IF found # None /\ found[1].block = sel[1].block
            THEN Some([block |-> found[1].block, slot_index |-> sel[1].slot_index,
                       remaining |-> found[1].count])
            ELSE None

\* ToolController::validate_target
validate_target(drone_tile, target_tile) ==
    LET dx == Abs(target_tile.x - drone_tile.x)
        dy == Abs(target_tile.y - drone_tile.y)
    IN IF drone_tile.z # target_tile.z THEN Err("DifferentLevel")
       ELSE IF dx = 0 /\ dy = 0 THEN Err("SameTile")
       ELSE IF dx > max_distance \/ dy > max_distance THEN Err("TooFar")
       ELSE Ok(<<>>)

\* ToolController::place_selected_block: the result, and the selection,
\* the slots and the cache's chunks afterwards.
place_selected_block(sel, ss, cs, drone_tile, target_tile) ==
    LET same == [selection |-> sel, slots |-> ss, chunks |-> cs]
        valid == validate_target(drone_tile, target_tile)
        current_block == block_at_world(cs, target_tile)
    IN IF sel = None THEN [result |-> Err("NoSelection")] @@ same
       ELSE IF ~valid.ok THEN [result |-> valid] @@ same
       ELSE IF current_block = None THEN [result |-> Err("TargetUnloaded")] @@ same
       ELSE IF current_block[1] # AIR THEN [result |-> Err("TargetBlocked")] @@ same
       ELSE LET removed == remove_block_from_slot(ss, sel[1].slot_index)
            IN IF removed.result = None
               THEN [result |-> Err("SlotEmpty"),
                     selection |-> refresh_from_inventory(sel, removed.slots),
                     slots |-> removed.slots, chunks |-> cs]
               ELSE IF removed.result[1] # sel[1].block
               THEN [result |-> Err("SlotMismatch"),
                     selection |-> refresh_from_inventory(sel, removed.slots),
                     slots |-> removed.slots, chunks |-> cs]
               ELSE LET written == set_block(cs, target_tile, removed.result[1])
                    IN IF ~written.result.ok
                       THEN [result |-> Err(<<"Chunk", written.result.err>>),
                             selection |-> sel, slots |-> removed.slots,
                             chunks |-> written.chunks]
                       ELSE LET refreshed == refresh_from_inventory(sel, removed.slots)
                                slot == removed.slots[sel[1].slot_index]
                            IN [result |-> Ok([placed_block |-> removed.result[1],
                                               target |-> target_tile,
                                               remaining_in_slot |->
                                                   IF slot.block = Some(sel[1].block)
                                                   THEN slot.count ELSE 0,
                                               selection_cleared |-> refreshed = None]),
                                selection |-> refreshed,
                                slots |-> removed.slots,
                                chunks |-> written.chunks]

-----------------------------------------------------------------------------
\* Tool specification: an empty inventory and a ToolController beside the
\* cache of the tool tests (chunk (0, 0, 0) generated, AIR written at the
\* origin); blocks are added to and removed from the inventory, a slot is
\* selected, and the selected block is placed from the drone's tile.

ToolInit ==
    /\ seed = 7
    /\ LET cache == populate_chunk_at(
                        [chunks |-> <<>>,
                         reusable_chunk |-> ChunkNew(ChunkPosition(0, 0, 0), AIR)],
                        seed, ChunkPosition(0, 0, 0))
       IN /\ chunks = set_block(cache.chunks, WorldCoord(0, 0, 0), AIR).chunks
          /\ reusable_chunk = cache.reusable_chunk
    /\ last = [op |-> "init"]
    /\ CodecIdle
    /\ line = LineIdle
    /\ populate = PopulateIdle
    /\ SchedulerIdle
    /\ GameIdle

AddBlockToSlots(block) ==
    /\ LET r == add_block_to_slots(slots, block)
       IN /\ slots' = r.slots
          /\ last' = [op |-> "add_block_to_slots", block |-> block, result |-> r.result]
    /\ UNCHANGED <<chunks, reusable_chunk, seed, chunk, cached, line, populate,
                   scheduler_vars, rendered_level, rendered_level_dirty, world_chunks,
                   selection>>

RemoveBlockFromSlot(slot_index) ==
    /\ LET r == remove_block_from_slot(slots, slot_index)
       IN /\ slots' = r.slots
          /\ last' = [op |-> "remove_block_from_slot", slot_index |-> slot_index,
                      result |-> r.result]
    /\ UNCHANGED <<chunks, reusable_chunk, seed, chunk, cached, line, populate,
                   scheduler_vars, rendered_level, rendered_level_dirty, world_chunks,
                   selection>>

SelectFromInventory(slot_index) ==
    /\ selection' = select_from_inventory(slots, slot_index)
    /\ last' = [op |-> "select_from_inventory", slot_index |-> slot_index,
                result |-> selection']
    /\ UNCHANGED <<chunks, reusable_chunk, seed, chunk, cached, line, populate,
                   scheduler_vars, rendered_level, rendered_level_dirty, world_chunks,
                   slots>>

PlaceSelectedBlock(drone_tile, target_tile) ==
    /\ \E r \in {place_selected_block(selection, slots, chunks, drone_tile, target_tile)} :
          /\ selection' = r.selection
          /\ slots' = r.slots
          /\ chunks' = r.chunks
          /\ last' = [op |-> "place_selected_block", drone_tile |-> drone_tile,
                      target_tile |-> target_tile, result |-> r.result]
    /\ UNCHANGED <<reusable_chunk, seed, chunk, cached, line, populate, scheduler_vars,
                   rendered_level, rendered_level_dirty, world_chunks>>

\* The drone stands on (1, 0, 0); the targets are the loaded origin, the
\* drone's own tile, the tile above it, a tile two steps away and a tile
\* of a chunk that is not loaded.
ToolNext ==
    \/ \E block \in {STONE, IRON} : AddBlockToSlots(block)
    \/ \E slot_index \in 0..INVENTORY_SLOTS : RemoveBlockFromSlot(slot_index)
    \/ \E slot_index \in 0..INVENTORY_SLOTS : SelectFromInventory(slot_index)
    \/ \E target_tile \in {WorldCoord(0, 0, 0), WorldCoord(1, 0, 0), WorldCoord(1, 0, 1),
                           WorldCoord(3, 0, 0), WorldCoord(1, -1, 0)} :
          PlaceSelectedBlock(WorldCoord(1, 0, 0), target_tile)

SpecTool == ToolInit /\ [][ToolNext]_vars

FailedPlacementChangesNothing ==
    [][(last'.op = "place_selected_block" /\ vars' # vars /\ ~last'.result.ok) =>
          slots' = slots /\ chunks' = chunks]_vars

-----------------------------------------------------------------------------
\* C29: in every state after construction, focus changes and drains, every
\* chunk position of the world ranges is in the cache or in the queue, and
\* the queued, the generated and the cached positions all lie within the
\* world ranges, whatever the focus level.
WorldIsCachedOrQueued ==
    /\ WorldPositions \subseteq (DOMAIN chunks \cup QueueSet(chunk_cache_queue))
    /\ QueueSet(chunk_cache_queue) \subseteq WorldPositions
    /\ last.op = "process_chunk_cache_queue" => QueueSet(last.generated) \subseteq WorldPositions
    /\ DOMAIN chunks \subseteq WorldPositions

\* The focus stands at a level whose listed planes reach beyond the world,
\* part of the world is generated and part is still queued.
WorldIsCachedOrQueuedWitness ==
    /\ last.op = "process_chunk_cache_queue"
    /\ last.generated # <<>>
    /\ chunk_cache_queue # <<>>
    /\ \E i \in DOMAIN prioritized_levels(view_z) :
          PlaneOf(prioritized_levels(view_z)[i]) \notin world_chunk_z_set

-----------------------------------------------------------------------------
\* Render specification: the scheduler with the render step of a frame.

\* pending_chunk_cache_counts that looks at the plane of view_z only.
pending_chunk_cache_counts_wall_only(g) ==
    LET wall_chunk_z == div_floor(g.view_z, CHUNK_HEIGHT)
        plane_chunks == Len(world_chunk_xs) * Len(world_chunk_ys)
    IN [pending |-> Cardinality({i \in DOMAIN g.queue :
                       /\ g.queue[i].z = wall_chunk_z
                       /\ ~has_chunk(g.chunks, g.queue[i])}),
        theoretical |-> plane_chunks]

\* GameState::pending_chunk_cache_counts: the queued positions of the two
\* planes of the view that are not cached, and the positions of those
\* planes.
pending_chunk_cache_counts(g) ==
    LET chunk_z == div_floor(saturating_sub(g.view_z, 1), CHUNK_HEIGHT)
        wall_chunk_z == div_floor(g.view_z, CHUNK_HEIGHT)
        plane_chunks == Len(world_chunk_xs) * Len(world_chunk_ys)
        planes == IF chunk_z = wall_chunk_z THEN 1 ELSE 2
    IN [pending |-> Cardinality({i \in DOMAIN g.queue :
                       /\ g.queue[i].z = chunk_z \/ g.queue[i].z = wall_chunk_z
                       /\ ~has_chunk(g.chunks, g.queue[i])}),
        theoretical |-> plane_chunks * planes]

\* GameState::render: the level texture (known by its z) is built when it
\* is dirty and nothing is pending on the two planes of the view.
render(g) ==
    IF g.rendered_level_dirty /\ pending_chunk_cache_counts(g).pending = 0
    THEN [g EXCEPT !.rendered_level = Some([z |-> g.view_z]),
                   !.rendered_level_dirty = FALSE]
    ELSE g

\* run: GameState::render
Render ==
    /\ GameBecomes(render(Game))
    /\ last' = [op |-> "render", pending |-> pending_chunk_cache_counts(Game).pending]
    /\ UNCHANGED <<seed, chunk, cached, line, populate, tool_vars>>

RenderNext ==
    \/ SchedulerNext
    \/ Render

SpecRender == SchedulerInit /\ [][RenderNext]_vars

\* C30: whenever render builds the level texture, every chunk position of
\* the world ranges on the planes of the levels view_z - 1 and view_z is in
\* the cache: no texture is built while a chunk of its two planes awaits
\* generation, the frame of a focus change included.
TextureBuiltOnlyOnCachedPlanes ==
    [][(rendered_level' # rendered_level /\ rendered_level' # None) =>
          /\ rendered_level' = Some([z |-> view_z])
          /\ \A p \in WorldPositions :
                p.z \in {PlaneOf(view_z - 1), PlaneOf(view_z)} => p \in DOMAIN chunks]_vars

\* A texture built for a level whose two planes differ, in the frame of a
\* focus change whose drain is skipped, while other planes are still queued.
TextureBuiltOnlyOnCachedPlanesWitness ==
    /\ last.op = "render"
    /\ rendered_level = Some([z |-> view_z])
    /\ PlaneOf(view_z - 1) # PlaneOf(view_z)
    /\ skip_chunk_cache_processing
    /\ chunk_cache_queue # <<>>
    /\ \E p \in DOMAIN chunks : p.z \notin {PlaneOf(view_z - 1), PlaneOf(view_z)}

====
